---- MODULE Spec2Model ----
(***************************************************************************)
(* Verification model of the ComplyQuick content-enhancement pipeline:     *)
(*   - BaseOpenAIService._make_openai_request   (completion client)        *)
(*   - BulkEnhancementService.enhance_all_slides and its response parser   *)
(*   - PPTExplanationService._process_single_slide / generate_explanations *)
(*     and process_ppt                                                     *)
(*   - SlideEnhancementService.enhance_specific_slides and                 *)
(*     get_enhancement_suggestions                                         *)
(*   - TranscriptionService, ChatbotService                                *)
(* Python strings are TLA+ strings; TLC evaluates Len, SubSeq and \o on    *)
(* them, so every text operation below is computed character by character. *)
(***************************************************************************)
EXTENDS Integers, Sequences, FiniteSets, TLC

VARIABLES
    call,       \* the completion client's request in progress, with its attempts and sleeps
    bulk,       \* one enhance_all_slides call
    chunk,      \* one chunk response handed to the parser and reconciled
    gen,        \* one generate_explanations call and its worker pool
    single,     \* one enhance_specific_slides call
    verifier,   \* one run of the coverage verifier on a source text and an explanation
    audio,      \* one call of the transcription service
    chat,       \* one handle_query call of the chatbot
    deck        \* one process_ppt call: the titles of the slides

vars == <<call, bulk, chunk, gen, single, verifier, audio, chat, deck>>

(***************************************************************************)
(* Python text primitives                                                  *)
(***************************************************************************)
\* A Python value that is either None or a string
None == [some |-> FALSE]
Some(s) == [some |-> TRUE, val |-> s]

Char(s, i) == SubSeq(s, i, i)

\* The ASCII characters str.strip() removes
IsSpace(c) == c \in {" ", "\n", "\t", "\r", "\f"}

RECURSIVE LStrip(_)
LStrip(s) ==
    IF Len(s) > 0 /\ IsSpace(Char(s, 1)) THEN LStrip(SubSeq(s, 2, Len(s))) ELSE s

RECURSIVE RStrip(_)
RStrip(s) ==
    IF Len(s) > 0 /\ IsSpace(Char(s, Len(s)))
    THEN RStrip(SubSeq(s, 1, Len(s) - 1)) ELSE s

\* str.strip()
Strip(s) == RStrip(LStrip(s))

UpperChars == "ABCDEFGHIJKLMNOPQRSTUVWXYZ"
LowerChars == "abcdefghijklmnopqrstuvwxyz"

LowerChar(c) ==
    IF \E k \in 1..Len(UpperChars) : Char(UpperChars, k) = c
    THEN Char(LowerChars, CHOOSE k \in 1..Len(UpperChars) : Char(UpperChars, k) = c)
    ELSE c

RECURSIVE Lower(_)
\* str.lower()
Lower(s) ==
    IF Len(s) = 0 THEN ""
    ELSE IF Len(s) = 1 THEN LowerChar(s)
    ELSE Lower(SubSeq(s, 1, Len(s) \div 2)) \o Lower(SubSeq(s, (Len(s) \div 2) + 1, Len(s)))

StartsAt(s, i, p) == i + Len(p) - 1 <= Len(s) /\ SubSeq(s, i, i + Len(p) - 1) = p

\* p in s
Contains(s, p) == \E i \in 1..(Len(s) + 1) : StartsAt(s, i, p)

\* The first position from i on where p occurs in s, 0 when there is none
FindFrom(s, p, i) ==
    LET last == Len(s) - Len(p) + 1 IN
    IF \A j \in i..last : ~StartsAt(s, j, p) THEN 0
    ELSE CHOOSE j \in i..last :
            StartsAt(s, j, p) /\ \A h \in i..(j - 1) : ~StartsAt(s, h, p)

\* s.find(p) + 1, or 0 when p does not occur
Find(s, p) == FindFrom(s, p, 1)

RECURSIVE Split(_, _)
\* s.split(sep) for a non-empty separator
Split(s, sep) ==
    LET i == Find(s, sep) IN
    IF i = 0 THEN <<s>>
    ELSE <<SubSeq(s, 1, i - 1)>> \o Split(SubSeq(s, i + Len(sep), Len(s)), sep)

RECURSIVE Replace(_, _, _)
\* s.replace(old, new) for a non-empty old
Replace(s, old, new) ==
    LET i == Find(s, old) IN
    IF i = 0 THEN s
    ELSE SubSeq(s, 1, i - 1) \o new \o Replace(SubSeq(s, i + Len(old), Len(s)), old, new)

RECURSIVE Join(_, _)
\* sep.join(parts)
Join(sep, parts) ==
    IF Len(parts) = 0 THEN ""
    ELSE IF Len(parts) = 1 THEN parts[1]
    ELSE parts[1] \o sep \o Join(sep, Tail(parts))

Digits == "0123456789"

RECURSIVE Dec(_)
\* str(n) for a natural number
Dec(n) == IF n < 10 THEN Char(Digits, n + 1) ELSE Dec(n \div 10) \o Char(Digits, (n % 10) + 1)

RECURSIVE Pow2(_)
Pow2(n) == IF n = 0 THEN 1 ELSE 2 * Pow2(n - 1)

Take(seq, n) == SubSeq(seq, 1, IF n < Len(seq) THEN n ELSE Len(seq))

(***************************************************************************)
(* Completion client: BaseOpenAIService._make_openai_request               *)
(* Times are in milliseconds.                                              *)
(***************************************************************************)
max_retries == 3
base_delay == 1

\* Jitter values sampled from random.random() * 0.1 seconds = [0, 100) ms
JitterSamples == {0, 37, 99}

\* What the external completion capability does on one attempt: it raises,
\* or it answers with a message whose content is a string or is missing.
ApiError(msg, status) == [kind |-> "error", msg |-> msg, status |-> status]
ApiContent(content) == [kind |-> "content", content |-> content]
ApiNoContent == [kind |-> "no_content"]

NoneSplitMsg == "'NoneType' object has no attribute 'split'"

\* len(text) // 4
EstimateTokens(prompt_len) == prompt_len \div 4

\* max(1000, 4096 - prompt_tokens)
MaxResponseTokens(prompt_tokens) ==
    IF 4096 - prompt_tokens > 1000 THEN 4096 - prompt_tokens ELSE 1000

\* The try block succeeds exactly when the capability answers with a string:
\* a raised error and a missing content (None.split raises) both land in
\* the except clause.
AttemptSucceeds_ReturnsNone(outcome) == outcome.kind \in {"content", "no_content"}
AttemptSucceeds(outcome) == outcome.kind = "content"

\* response.choices[0].message.content.strip()
ReturnValue(outcome) ==
    IF outcome.kind = "content" THEN Some(Strip(outcome.content)) ELSE None

\* The exception the except clause binds: (message, status_code or 0)
CaughtException(outcome) ==
    IF outcome.kind = "error" THEN [msg |-> outcome.msg, status |-> outcome.status]
    ELSE [msg |-> NoneSplitMsg, status |-> 0]

\* if attempt < self.max_retries - 1
SleepsAfterFailure_Always(attempt) == attempt < max_retries
SleepsAfterFailure(attempt) == attempt < max_retries - 1

\* (self.base_delay * (2 ** attempt)) + (random.random() * 0.1)
BackoffDelay_OffByOne(attempt, jitter) == (base_delay * 1000 * Pow2(attempt + 1)) + jitter
BackoffDelay(attempt, jitter) == (base_delay * 1000 * Pow2(attempt)) + jitter

\* for attempt in range(self.max_retries): is there another iteration?
LoopContinues_OneMore(attempt) == attempt + 1 < max_retries + 1
LoopContinues(attempt) == attempt + 1 < max_retries

\* f"Error code: {getattr(last_exception, 'status_code', 500)} - {str(last_exception)}"
ExhaustedMessage(exc) ==
    "Error code: " \o Dec(IF exc.status = 0 THEN 500 ELSE exc.status) \o " - " \o exc.msg

NewCall(prompt_len) ==
    [pc |-> "running", attempt |-> 0, prompt_tokens |-> EstimateTokens(prompt_len),
     result |-> None, error |-> "", events |-> <<>>]

\* One iteration of the retry loop, and the raise that follows the last one.
ClientStep(c, outcome, jitter) ==
    LET tried == [ev |-> "attempt", k |-> c.attempt,
                  max_tokens |-> MaxResponseTokens(c.prompt_tokens),
                  got |-> outcome.kind,
                  ok |-> AttemptSucceeds(outcome)]
    IN
    IF AttemptSucceeds(outcome)
    THEN [c EXCEPT !.pc = "returned",
                   !.result = ReturnValue(outcome),
                   !.events = Append(@, tried)]
    ELSE LET slept == IF SleepsAfterFailure(c.attempt)
                      THEN <<[ev |-> "sleep", ms |-> BackoffDelay(c.attempt, jitter),
                              jitter |-> jitter]>>
                      ELSE <<>>
         IN IF LoopContinues(c.attempt)
            THEN [c EXCEPT !.attempt = @ + 1,
                           !.events = Append(@, tried) \o slept]
            ELSE [c EXCEPT !.pc = "raised",
                           !.error = ExhaustedMessage(CaughtException(outcome)),
                           !.events = Append(@, tried) \o slept]


(***************************************************************************)
(* Response parser: BulkEnhancementService._parse_enhanced_explanations    *)
(***************************************************************************)
skip_words ==
    <<"here are", "following are", "below are", "enhanced explanations",
      "slide", "explanation:", "guidelines", "instructions">>

\* any(skip_word in text.lower() for skip_word in [...])
LooksLikeCommentary_CaseSensitive(text) ==
    \E k \in 1..Len(skip_words) : Contains(text, skip_words[k])
LooksLikeCommentary(text) ==
    LET lowered == Lower(text) IN
    \E k \in 1..Len(skip_words) : Contains(lowered, skip_words[k])

\* [exp.strip() for exp in response.split('\n\n') if exp.strip()]
SplitBlocks(response) ==
    LET parts == Split(response, "\n\n") IN
    SelectSeq([k \in 1..Len(parts) |-> Strip(parts[k])], LAMBDA exp : exp # "")

\* f"[Enhanced explanation {n}]"
Placeholder(n) == "[Enhanced explanation " \o Dec(n) \o "]"

RECURSIVE GroupLines(_, _, _)
\* The loop over response.split('\n'): a blank line closes the block being
\* collected, commentary lines are skipped, the other lines are collected;
\* the block still open at the end is closed.
GroupLines(lines, potential, current) ==
    IF Len(lines) = 0
    THEN IF Len(current) > 0 THEN Append(potential, Join(" ", current)) ELSE potential
    ELSE LET line == Strip(Head(lines)) IN
         IF line = ""
         THEN IF Len(current) > 0
              THEN GroupLines(Tail(lines), Append(potential, Join(" ", current)), <<>>)
              ELSE GroupLines(Tail(lines), potential, current)
         ELSE IF ~LooksLikeCommentary(line)
              THEN GroupLines(Tail(lines), potential, Append(current, line))
              ELSE GroupLines(Tail(lines), potential, current)

RECURSIVE PadWithPlaceholders(_, _)
\* while len(explanations) < expected_count: explanations.append(placeholder)
PadWithPlaceholders(explanations, expected_count) ==
    IF Len(explanations) < expected_count
    THEN PadWithPlaceholders(Append(explanations, Placeholder(Len(explanations) + 1)),
                             expected_count)
    ELSE explanations

\* The surplus branch: drop commentary blocks, keep the first expected_count;
\* with too few left, the first expected_count of the unfiltered blocks.
SurplusBlocks_NoFilter(explanations, expected_count) == Take(explanations, expected_count)
SurplusBlocks(explanations, expected_count) ==
    LET cleaned_explanations ==
            SelectSeq(explanations, LAMBDA b : ~LooksLikeCommentary(b))
    IN IF Len(cleaned_explanations) >= expected_count
       THEN Take(cleaned_explanations, expected_count)
       ELSE Take(explanations, expected_count)

\* The shortfall branch: the line-based re-parse when it yields enough
\* blocks, else the blocks of the first split padded with placeholders.
ShortfallBlocks(response, explanations, expected_count) ==
    LET potential_explanations == GroupLines(Split(response, "\n"), <<>>, <<>>)
    IN IF Len(potential_explanations) >= expected_count
       THEN Take(potential_explanations, expected_count)
       ELSE Take(PadWithPlaceholders(explanations, expected_count), expected_count)

\* The except clause: [f"[Enhanced explanation {i + 1}]" for i in range(expected_count)]
ParseFailure(expected_count) == [i \in 1..expected_count |-> Placeholder(i)]

\* _parse_enhanced_explanations(response, expected_count); response.split
\* raises when the response is not a string, which the except clause absorbs.
ParseEnhancedExplanations(response, expected_count) ==
    IF ~response.some THEN ParseFailure(expected_count)
    ELSE LET explanations == SplitBlocks(response.val) IN
         IF Len(explanations) = expected_count THEN explanations
         ELSE IF Len(explanations) > expected_count
              THEN SurplusBlocks(explanations, expected_count)
              ELSE ShortfallBlocks(response.val, explanations, expected_count)

(***************************************************************************)
(* One chunk of enhance_all_slides: parse, reconcile the count, write back *)
(***************************************************************************)
RECURSIVE PadWithOriginals(_, _)
\* while len(explanations) < len(batch):
\*     explanations.append(batch[len(explanations)]['explanation'])
PadWithOriginals(explanations, batch) ==
    IF Len(explanations) < Len(batch)
    THEN PadWithOriginals(Append(explanations, batch[Len(explanations) + 1].explanation),
                          batch)
    ELSE explanations

OriginalExplanations(batch) == [j \in 1..Len(batch) |-> batch[j].explanation]

\* Lines 101-123: the explanations the chunk's units receive
ReconcileCount(batch, parsed) ==
    IF Len(parsed) = Len(batch) THEN parsed
    ELSE LET normalized == IF Len(parsed) > Len(batch)
                           THEN Take(parsed, Len(batch))
                           ELSE PadWithOriginals(parsed, batch)
         IN IF Len(normalized) # Len(batch) THEN OriginalExplanations(batch)
            ELSE normalized

ChunkExplanations(batch, response) ==
    ReconcileCount(batch, ParseEnhancedExplanations(response, Len(batch)))

\* updated_array[i + j] = {**item, 'explanation': explanations[j]}
WithExplanation(item, explanation) == [item EXCEPT !.explanation = explanation]

UpdatedBatch(batch, explanations) ==
    [j \in 1..Len(batch) |-> WithExplanation(batch[j], explanations[j])]

(***************************************************************************)
(* The completion client on its own: requests are issued one after the     *)
(* other; each attempt meets whatever the external capability does.        *)
(***************************************************************************)
Idle == [pc |-> "idle"]

\* Prompt lengths (characters) around the 4096 - len // 4 >= 1000 boundary
PromptLens == {0, 12383, 12384, 20000}

AttemptOutcomes ==
    {ApiError("Rate limit reached", 429), ApiError("Connection error.", 0),
     ApiNoContent, ApiContent(" Hello.\n"), ApiContent("")}

ClientIdle == [pc |-> "idle", attempt |-> 0, prompt_tokens |-> 0,
               result |-> None, error |-> "", events |-> <<>>]

ClientInit ==
    /\ audio = Idle
    /\ chat = Idle
    /\ deck = Idle
    /\ call = ClientIdle
    /\ single = Idle
    /\ verifier = Idle
    /\ bulk = Idle
    /\ chunk = Idle
    /\ gen = Idle

\* A caller invokes _make_openai_request(prompt)
ClientBegin ==
    /\ call.pc \in {"idle", "returned", "raised"}
    /\ \E n \in PromptLens : call' = NewCall(n)
    /\ UNCHANGED <<bulk, chunk, gen, single, verifier, audio, chat, deck>>

\* One pass through the body of the retry loop
ClientAttempt ==
    /\ call.pc = "running"
    /\ \E outcome \in AttemptOutcomes, jitter \in JitterSamples :
          call' = ClientStep(call, outcome, jitter)
    /\ UNCHANGED <<bulk, chunk, gen, single, verifier, audio, chat, deck>>

ClientNext == ClientBegin \/ ClientAttempt

SpecClient == ClientInit /\ [][ClientNext]_vars

Attempts(c) == SelectSeq(c.events, LAMBDA e : e.ev = "attempt")
Sleeps(c) == SelectSeq(c.events, LAMBDA e : e.ev = "sleep")
AllFailed(c) == \A i \in 1..Len(Attempts(c)) : ~Attempts(c)[i].ok

\* C5: a request makes at most 3 attempts; it has raised exactly when three
\* attempts were made and all three failed, so it never raises earlier.
C5_AtMostThreeAttempts ==
    /\ Len(Attempts(call)) <= 3
    /\ call.pc = "raised" => (Len(Attempts(call)) = 3 /\ AllFailed(call))
    /\ (Len(Attempts(call)) = 3 /\ AllFailed(call)) => call.pc = "raised"
    /\ call.pc = "raised" => Len(call.error) > 0

C5_Witness ==
    /\ call.pc = "raised"
    /\ Len(Attempts(call)) = 3
    /\ call.error = "Error code: 429 - Rate limit reached"

\* C6: the wait before attempt k >= 1 is 2^(k-1) seconds plus a jitter in
\* [0, 0.1) s (1 s before the second attempt, 2 s before the third); attempts
\* and waits alternate, so there is no wait before the first attempt, none
\* after a successful attempt and none after the final failed attempt.
C6_BackoffSchedule ==
    LET ev == call.events IN
    /\ \A p \in 1..Len(ev) :
          ev[p].ev = "sleep" =>
             /\ p > 1 /\ ev[p - 1].ev = "attempt" /\ ~ev[p - 1].ok
             /\ ev[p - 1].k + 1 \in {1, 2}
             /\ ev[p].jitter >= 0 /\ ev[p].jitter < 100
             /\ ev[p].ms = (IF ev[p - 1].k + 1 = 1 THEN 1000 ELSE 2000) + ev[p].jitter
             /\ p < Len(ev) => (ev[p + 1].ev = "attempt" /\ ev[p + 1].k = ev[p - 1].k + 1)
             /\ p = Len(ev) => (call.pc = "running" /\ call.attempt = ev[p - 1].k + 1)
    /\ \A p \in 1..Len(ev) :
          ev[p].ev = "attempt" =>
             /\ ev[p].k >= 1 => (p > 1 /\ ev[p - 1].ev = "sleep")
             /\ ev[p].k = 0 => p = 1
             /\ ev[p].ok => p = Len(ev)
             /\ ev[p].k = 2 => p = Len(ev)
    /\ call.pc \in {"returned", "raised"} => ev[Len(ev)].ev = "attempt"

C6_Witness ==
    /\ call.pc = "raised"
    /\ Len(Sleeps(call)) = 2
    /\ Sleeps(call)[1].ms = 1037
    /\ Sleeps(call)[2].ms = 2099

\* C7: the client returns at the first successful attempt and makes no
\* further one; what it returns is a string, never None; an attempt that got
\* no content is a failed attempt, followed by a retry or by the final raise.
C7_ReturnsFirstSuccess ==
    LET att == Attempts(call) IN
    /\ call.pc = "returned" =>
          /\ call.result.some
          /\ Len(att) >= 1 /\ att[Len(att)].ok
          /\ call.events[Len(call.events)] = att[Len(att)]
    /\ \A i \in 1..Len(att) :
          /\ att[i].ok => (i = Len(att) /\ call.pc = "returned")
          /\ att[i].got = "no_content" =>
                /\ ~att[i].ok
                /\ i = Len(att) => IF att[i].k < 2
                                   THEN call.pc = "running" /\ call.attempt = att[i].k + 1
                                   ELSE call.pc = "raised"

C7_Witness ==
    /\ call.pc = "returned"
    /\ call.result = Some("Hello.")
    /\ Len(Attempts(call)) = 3
    /\ Attempts(call)[1].got = "no_content"
    /\ Attempts(call)[2].got = "no_content"


(***************************************************************************)
(* One chunk on its own: a batch of B units, the text the completion       *)
(* client returned for it, and the explanations the units end up with.     *)
(***************************************************************************)
MaxBatch == 5
MaxPieces == 5

SampleUnit(i) ==
    [slide |-> i, content |-> "Topic " \o Dec(i), explanation |-> "Original " \o Dec(i)]

SampleUnits(n) == [i \in 1..n |-> SampleUnit(i)]

\* Completion texts: every concatenation of at most MaxPieces pieces, which
\* covers plain blocks, commentary blocks in mixed case, double newlines,
\* single newlines and whitespace-only lines, ...
ResponsePieces == {"a", "b", "Slide", "\n\n", "\n", " "}

RECURSIVE Concats(_)
Concats(n) ==
    IF n = 0 THEN {""}
    ELSE LET shorter == Concats(n - 1) IN
         shorter \cup {s \o p : s \in shorter, p \in ResponsePieces}

\* ... and the 7-blocks-for-5 response of the reconciliation scenario.
SurplusScenario ==
    "First.\n\nThese are the guidelines I followed.\n\nSecond.\n\nThird.\n\n"
    \o "GUIDELINES applied.\n\nFourth.\n\nFifth."

Completions == Concats(MaxPieces) \cup {SurplusScenario}

ChunkInit ==
    /\ audio = Idle
    /\ chat = Idle
    /\ deck = Idle
    /\ \E b \in 1..MaxBatch : chunk = [pc |-> "ready", batch |-> SampleUnits(b)]
    /\ call = ClientIdle
    /\ single = Idle
    /\ verifier = Idle
    /\ bulk = Idle
    /\ gen = Idle

ChunkDone(batch, response) ==
    LET explanations == ChunkExplanations(batch, response) IN
    [pc |-> "done", batch |-> batch, response |-> response,
     explanations |-> explanations, updated |-> UpdatedBatch(batch, explanations)]

\* Lines 98-130 for one chunk whose request succeeded with content c
ChunkProcess ==
    /\ chunk.pc = "ready"
    /\ \E c \in Completions :
          chunk' = ChunkDone(chunk.batch, ReturnValue(ApiContent(c)))
    /\ UNCHANGED <<call, bulk, gen, single, verifier, audio, chat, deck>>

\* The same lines when the parser is handed a response that is not a string
\* (a stubbed completion client returning None): response.split raises.
ChunkProcessNonString ==
    /\ chunk.pc = "ready"
    /\ chunk' = ChunkDone(chunk.batch, None)
    /\ UNCHANGED <<call, bulk, gen, single, verifier, audio, chat, deck>>

ChunkNext == ChunkProcess \/ ChunkProcessNonString

SpecParse == ChunkInit /\ [][ChunkNext]_vars

\* The stripped, non-empty blocks between double newlines, and those of them
\* that contain no meta-commentary keyword in any letter case
BlocksOf(text) ==
    LET raw == Split(text, "\n\n") IN
    SelectSeq([k \in 1..Len(raw) |-> Strip(raw[k])], LAMBDA b : b # "")

HasKeyword(block) ==
    LET lowered == Lower(block) IN
    \E w \in {"here are", "following are", "below are", "enhanced explanations",
              "slide", "explanation:", "guidelines", "instructions"} :
       Contains(lowered, w)

KeptBlocks(text) == SelectSeq(BlocksOf(text), LAMBDA b : ~HasKeyword(b))

\* The blocks of the line-based re-parse
LineBlocks(text) == GroupLines(Split(text, "\n"), <<>>, <<>>)

ChunkIsShort ==
    /\ chunk.pc = "done" /\ chunk.response.some
    /\ Len(BlocksOf(chunk.response.val)) < Len(chunk.batch)
    /\ Len(LineBlocks(chunk.response.val)) < Len(chunk.batch)

\* C2: when the response yields N < B explanations and the line-based
\* re-parse is short too, every missing slot j > N receives unit j's
\* original explanation.
C2_ShortfallPadsWithOriginals ==
    ChunkIsShort =>
       \A j \in (Len(BlocksOf(chunk.response.val)) + 1)..Len(chunk.batch) :
          /\ chunk.explanations[j] = chunk.batch[j].explanation
          /\ chunk.updated[j].explanation = chunk.batch[j].explanation

ChunkHasSurplus ==
    /\ chunk.pc = "done" /\ chunk.response.some
    /\ Len(BlocksOf(chunk.response.val)) > Len(chunk.batch)

\* C3 as stated: with N > B blocks the chunk receives, in order, the first B
\* blocks that remain after dropping every block that contains a keyword.
C3_SurplusKeepsFirstKept ==
    ChunkHasSurplus =>
       chunk.explanations = Take(KeptBlocks(chunk.response.val), Len(chunk.batch))

\* C3 amended: with N > B blocks the chunk receives, in order, the first B
\* blocks that remain after dropping every block that contains a keyword
\* when at least B blocks remain, and the first B of all N blocks otherwise.
C3_SurplusFilteredOrFirst ==
    ChunkHasSurplus =>
       LET kept == KeptBlocks(chunk.response.val)
           B == Len(chunk.batch)
       IN /\ Len(kept) >= B => chunk.explanations = Take(kept, B)
          /\ Len(kept) < B => chunk.explanations = Take(BlocksOf(chunk.response.val), B)
          /\ \A j \in 1..B : chunk.updated[j].explanation = chunk.explanations[j]

\* 7 blocks for a batch of 5, two of them naming "guidelines": the other 5
C3_Witness ==
    /\ chunk.pc = "done"
    /\ Len(chunk.batch) = 5
    /\ chunk.response = Some(SurplusScenario)
    /\ Len(BlocksOf(SurplusScenario)) = 7
    /\ chunk.explanations = <<"First.", "Second.", "Third.", "Fourth.", "Fifth.">>

MaxUnits == 3

RECURSIVE RunClient(_, _, _)
\* _make_openai_request run to its end against a scripted capability
RunClient(c, script, jitter) ==
    IF c.pc # "running" \/ Len(script) = 0 THEN c
    ELSE RunClient(ClientStep(c, Head(script), jitter), Tail(script), jitter)

\* _validate_input: the message of the error it raises, "" when it passes
ValidateInput_NonNegativeBatch(explanation_array, batch_size) ==
    IF Len(explanation_array) = 0 THEN "Explanation array cannot be empty"
    ELSE IF \E k \in 1..Len(explanation_array) :
                ~({"slide", "content", "explanation"} \subseteq DOMAIN explanation_array[k])
         THEN "Each item must contain 'slide', 'content', and 'explanation' keys"
    ELSE IF batch_size < 0 THEN "Batch size must be a positive integer"
    ELSE ""

ValidateInput(explanation_array, batch_size) ==
    IF Len(explanation_array) = 0 THEN "Explanation array cannot be empty"
    ELSE IF \E k \in 1..Len(explanation_array) :
                ~({"slide", "content", "explanation"} \subseteq DOMAIN explanation_array[k])
         THEN "Each item must contain 'slide', 'content', and 'explanation' keys"
    ELSE IF batch_size <= 0 THEN "Batch size must be a positive integer"
    ELSE ""

\* "\n".join(f"Slide {slide}: {content}\nExplanation: {explanation}" ...)
Context(explanation_array) ==
    Join("\n", [k \in 1..Len(explanation_array) |->
                   "Slide " \o Dec(explanation_array[k].slide) \o ": "
                   \o explanation_array[k].content \o "\nExplanation: "
                   \o explanation_array[k].explanation])

\* explanation_array[i:i + batch_size], with i counted from 0
Batch(explanation_array, i, batch_size) ==
    SubSeq(explanation_array, i + 1,
           IF i + batch_size < Len(explanation_array)
           THEN i + batch_size ELSE Len(explanation_array))

\* for j, item in enumerate(batch): updated_array[i + j] = {**item, ...}
WriteBack_FromStart(updated_array, i, batch, explanations) ==
    [k \in 1..Len(updated_array) |->
        IF k \in 1..Len(batch)
        THEN WithExplanation(batch[k], explanations[k])
        ELSE updated_array[k]]
WriteBack(updated_array, i, batch, explanations) ==
    [k \in 1..Len(updated_array) |->
        IF k \in (i + 1)..(i + Len(batch))
        THEN WithExplanation(batch[k - i], explanations[k - i])
        ELSE updated_array[k]]

\* Completion texts that take the parser through each of its branches
BulkCompletions ==
    {"", "One.", "Alpha.\n\nBeta.", "Red.\n \nGreen.\nLeaf.\n\n\nBlue.",
     "Here are the enhanced explanations:\n\nI.\n\nII.\n\nIII.\n\nIV.",
     "Slide 1: x\n\nSLIDE 2: y\n\nSlide 3: z\n\nLast."}

\* What the capability does over the attempts of one request
BulkScripts ==
    {<<ApiContent(text)>> : text \in BulkCompletions}
    \cup {<<ApiError("Rate limit reached", 429), ApiNoContent, ApiContent(" Late.\n\n")>>,
          <<ApiError("Rate limit reached", 429), ApiError("Connection error.", 0),
            ApiError("Rate limit reached", 429)>>}

BulkInit ==
    /\ audio = Idle
    /\ chat = Idle
    /\ deck = Idle
    /\ bulk = Idle
    /\ call = ClientIdle
    /\ single = Idle
    /\ verifier = Idle
    /\ chunk = Idle
    /\ gen = Idle

\* enhance_all_slides(explanation_array, query_prompt, batch_size) up to the
\* loop: validation, then updated_array = explanation_array.copy()
\* The caller's collection, its last unit lacking the key `missing`
WithoutKey(units, missing) ==
    IF missing = "" \/ Len(units) = 0 THEN units
    ELSE [units EXCEPT ![Len(units)] =
             [key \in DOMAIN @ \ {missing} |-> @[key]]]

BulkCall ==
    /\ bulk.pc = "idle"
    /\ \E n \in 0..MaxUnits, batch_size \in (-1)..MaxBatch,
          missing \in {"", "slide", "content", "explanation"} :
          LET explanation_array == WithoutKey(SampleUnits(n), missing)
              invalid == ValidateInput(explanation_array, batch_size)
          IN bulk' = [pc |-> IF invalid = "" THEN "running" ELSE "raised",
                      explanation_array |-> explanation_array,
                      batch_size |-> batch_size,
                      i |-> 0,
                      updated_array |-> explanation_array,
                      trace |-> <<>>,
                      attempts |-> 0,
                      error |-> invalid]
    /\ UNCHANGED <<call, chunk, gen, single, verifier, audio, chat, deck>>

\* for i in range(0, len(explanation_array), batch_size): is there a next i
RangeHasNext(i, batch_size, total) == i + batch_size < total

\* if i + batch_size < len(explanation_array): await asyncio.sleep(1)
AnotherChunkFollows_Always(i, batch_size, total) == TRUE
AnotherChunkFollows(i, batch_size, total) == i + batch_size < total

\* The request of a chunk raised: except Exception as e: ... raise
RequestFailed_Absorbed(b, error, tried) ==
    [b EXCEPT !.pc = IF RangeHasNext(b.i, b.batch_size, Len(b.explanation_array))
                     THEN "running" ELSE "returned",
              !.error = error,
              !.i = @ + b.batch_size,
              !.attempts = @ + tried,
              !.trace = Append(@, "request")]
RequestFailed(b, error, tried) ==
    [b EXCEPT !.pc = "raised",
              !.error = error,
              !.attempts = @ + tried,
              !.trace = Append(@, "request")]

\* One iteration of the loop over the chunks: request, parse, reconcile,
\* write back, pause when another chunk follows; the return after the last.
BulkChunkWith(scripts) ==
    /\ bulk.pc = "running"
    /\ \E script \in scripts, jitter \in JitterSamples :
          LET batch == Batch(bulk.explanation_array, bulk.i, bulk.batch_size)
              c == RunClient(NewCall(Len(Context(bulk.explanation_array))), script, jitter)
              tried == Len(SelectSeq(c.events, LAMBDA e : e.ev = "attempt"))
              more == AnotherChunkFollows(bulk.i, bulk.batch_size,
                                          Len(bulk.explanation_array))
          IN IF c.pc = "raised"
             THEN bulk' = RequestFailed(bulk, c.error, tried)
             ELSE bulk' = [bulk EXCEPT
                              !.pc = IF RangeHasNext(bulk.i, bulk.batch_size,
                                                     Len(bulk.explanation_array))
                                     THEN "running" ELSE "returned",
                              !.updated_array =
                                  WriteBack(@, bulk.i, batch, ChunkExplanations(batch, c.result)),
                              !.i = @ + bulk.batch_size,
                              !.attempts = @ + tried,
                              !.trace = Append(@, "request")
                                        \o (IF more THEN <<"pause">> ELSE <<>>)]
    /\ UNCHANGED <<call, chunk, gen, single, verifier, audio, chat, deck>>

BulkChunk == BulkChunkWith(BulkScripts)

BulkNext == BulkCall \/ BulkChunk

SpecBulk == BulkInit /\ [][BulkNext]_vars

\* C1: a successful enhance_all_slides returns exactly len(units) entries,
\* and entry k has the keys of input entry k with the same slide and content
\* (every field but the explanation is the input's).
C1_ShapePreserved ==
    bulk.pc = "returned" =>
       /\ Len(bulk.updated_array) = Len(bulk.explanation_array)
       /\ \A k \in 1..Len(bulk.explanation_array) :
             /\ DOMAIN bulk.updated_array[k] = DOMAIN bulk.explanation_array[k]
             /\ \A f \in DOMAIN bulk.explanation_array[k] \ {"explanation"} :
                   bulk.updated_array[k][f] = bulk.explanation_array[k][f]

\* Three units in chunks of two: the first chunk got five blocks for two
\* units, the second an empty text for one unit
C1_Witness ==
    /\ bulk.pc = "returned"
    /\ Len(bulk.explanation_array) = 3 /\ bulk.batch_size = 2
    /\ bulk.updated_array[1].explanation = "I."
    /\ bulk.updated_array[2].explanation = "II."
    /\ bulk.updated_array[3].explanation = "[Enhanced explanation 1]"
    /\ bulk.updated_array[3].slide = 3


(***************************************************************************)
(* Coverage verifier: PPTExplanationService._verify_content_coverage and   *)
(* _semantic_verify_content_coverage                                       *)
(***************************************************************************)
\* Stands for U+2022 (the bullet character), which is not an ASCII character
Bullet == "^"

IsDigit(c) == Len(c) = 1 /\ Contains(Digits, c)

\* The characters of [•\-*] and of [^•\-*\n]
IsBulletChar(c) == c \in {Bullet, "-", "*"}
IsBulletText(c) == Len(c) = 1 /\ ~IsBulletChar(c) /\ c # "\n"

\* The last position of the run of digits that starts at i (i - 1 if none)
DigitRunEnd(s, i) ==
    CHOOSE j \in (i - 1)..Len(s) :
       /\ j = Len(s) \/ ~IsDigit(Char(s, j + 1))
       /\ \A h \in i..j : IsDigit(Char(s, h))

SpaceRunEnd(s, i) ==
    CHOOSE j \in (i - 1)..Len(s) :
       /\ j = Len(s) \/ ~IsSpace(Char(s, j + 1))
       /\ \A h \in i..j : IsSpace(Char(s, h))

TextRunEnd(s, i) ==
    CHOOSE j \in (i - 1)..Len(s) :
       /\ j = Len(s) \/ ~IsBulletText(Char(s, j + 1))
       /\ \A h \in i..j : IsBulletText(Char(s, h))

RECURSIVE FindNumbers(_, _)
\* re.findall(r'\d+', s), scanning from position p
FindNumbers(s, p) ==
    IF \A g \in p..Len(s) : ~IsDigit(Char(s, g)) THEN <<>>
    ELSE LET g == CHOOSE g \in p..Len(s) :
                     IsDigit(Char(s, g)) /\ \A h \in p..(g - 1) : ~IsDigit(Char(s, h))
         IN <<SubSeq(s, g, DigitRunEnd(s, g))>> \o FindNumbers(s, DigitRunEnd(s, g) + 1)

\* Where the group of [•\-*]\s*([^•\-*\n]+) starts when the pattern matches
\* at p, 0 when it does not: \s* is greedy and gives back whitespace until
\* the group finds a first character.
BulletGroupStart(s, p) ==
    LET starts == {g \in (p + 1)..(SpaceRunEnd(s, p + 1) + 1) :
                      g <= Len(s) /\ IsBulletText(Char(s, g))}
    IN IF IsBulletChar(Char(s, p)) /\ starts # {}
       THEN CHOOSE g \in starts : \A h \in starts : h <= g
       ELSE 0

RECURSIVE FindBullets(_, _)
\* re.findall(r'[•\-*]\s*([^•\-*\n]+)', s), scanning from position p
FindBullets(s, p) ==
    IF \A q \in p..Len(s) : BulletGroupStart(s, q) = 0 THEN <<>>
    ELSE LET q == CHOOSE q \in p..Len(s) :
                     /\ BulletGroupStart(s, q) > 0
                     /\ \A h \in p..(q - 1) : BulletGroupStart(s, h) = 0
             g == BulletGroupStart(s, q)
         IN <<SubSeq(s, g, TextRunEnd(s, g))>> \o FindBullets(s, TextRunEnd(s, g) + 1)

RECURSIVE Words(_)
\* s.split(): the maximal runs of non-whitespace characters
Words(s) ==
    LET t == LStrip(s)
        wordEnd == CHOOSE j \in 1..Len(t) :
                      /\ j = Len(t) \/ IsSpace(Char(t, j + 1))
                      /\ \A h \in 1..j : ~IsSpace(Char(t, h))
    IN IF Len(t) = 0 THEN <<>>
       ELSE <<SubSeq(t, 1, wordEnd)>> \o Words(SubSeq(t, wordEnd + 1, Len(t)))

RECURSIVE BulletTerms(_)
\* bullet_terms: the first three words of each bullet
BulletTerms(bullets) ==
    IF Len(bullets) = 0 THEN <<>>
    ELSE Take(Words(Strip(Head(bullets))), 3) \o BulletTerms(Tail(bullets))

NumbersCovered(original_content, explanation) ==
    LET numbers == FindNumbers(original_content, 1) IN
    \A k \in 1..Len(numbers) : Contains(explanation, numbers[k])

\* covered_terms >= len(bullet_terms) * 0.7
BulletsCovered(original_content, explanation) ==
    LET bullet_terms == BulletTerms(FindBullets(original_content, 1))
        lowered == Lower(explanation)
        covered_terms == Cardinality({k \in 1..Len(bullet_terms) :
                                         Contains(lowered, Lower(bullet_terms[k]))})
    IN covered_terms * 10 >= Len(bullet_terms) * 7

\* _verify_content_coverage(original_content, explanation)
VerifyContentCoverage(original_content, explanation) ==
    NumbersCovered(original_content, explanation)
    /\ BulletsCovered(original_content, explanation)

\* _semantic_verify_content_coverage: without a sentence model, or when an
\* encode call raises, the lexical verdict; else the mean similarity against
\* the 0.6 threshold, which is 0 when the content is blank (no segment is
\* encoded) and otherwise whatever the embeddings give.
EmbeddingInvoked(sentence_model, original_content) ==
    sentence_model # "none" /\ Strip(original_content) # ""

SemanticVerify_FailsClosed(sentence_model, embedding, original_content, explanation) ==
    IF sentence_model = "none" THEN VerifyContentCoverage(original_content, explanation)
    ELSE IF ~EmbeddingInvoked(sentence_model, original_content) THEN FALSE
    ELSE embedding = "similar"

SemanticVerify(sentence_model, embedding, original_content, explanation) ==
    IF sentence_model = "none" THEN VerifyContentCoverage(original_content, explanation)
    ELSE IF ~EmbeddingInvoked(sentence_model, original_content) THEN FALSE
    ELSE IF embedding = "raises" THEN VerifyContentCoverage(original_content, explanation)
    ELSE embedding = "similar"

(***************************************************************************)
(* Unit processor: PPTExplanationService._process_single_slide             *)
(***************************************************************************)
\* explanation.replace("•", "").replace("-", "").replace("...", ".")
\*            .replace("\n\n", " ").replace("**", "").strip()
CleanExplanation(explanation) ==
    Strip(Replace(Replace(Replace(Replace(Replace(explanation,
        Bullet, ""), "-", ""), "...", "."), "\n\n", " "), "**", ""))


\* What _process_single_slide hands back: (index, text), or an exception
Returned(index, text) ==
    [index |-> index, text |-> Some(text), raised |-> FALSE, message |-> ""]
Raised(index, message) ==
    [index |-> index, text |-> None, raised |-> TRUE, message |-> message]
Pending == [index |-> -1, text |-> None, raised |-> FALSE, message |-> ""]

\* The outer except clause: return index, f"Error generating explanation: {str(e)}"
ProcessFailure_Propagates(index, message) == Raised(index, message)
ProcessFailure(index, message) ==
    Returned(index, "Error generating explanation: " \o message)

\* if not self._semantic_verify_content_coverage(...): regenerate
NeedsRegeneration(verdict) == ~verdict

\* warning is what the inner except clause of step 4 logs ("" when it is
\* not entered)
NewWorker ==
    [pc |-> "queued", cleaned |-> "", requests |-> 0, attempts |-> 0,
     verdicts |-> <<>>, failure |-> "", warning |-> "", ret |-> Pending]

\* The attempts a finished client call has made
Tried(c) == Len(SelectSeq(c.events, LAMBDA e : e.ev = "attempt"))

\* Steps 1-3: the first request and the cleaning of its result
GenerateStep(w, index, c) ==
    IF c.pc = "raised"
    THEN [w EXCEPT !.pc = "done", !.requests = @ + 1, !.attempts = @ + Tried(c),
                   !.failure = c.error,
                   !.ret = ProcessFailure(index, c.error)]
    ELSE [w EXCEPT !.pc = "generated", !.requests = @ + 1, !.attempts = @ + Tried(c),
                   !.cleaned = CleanExplanation(c.result.val)]

\* Step 4, the coverage check of the cleaned text
VerifyStep(w, index, verdict) ==
    IF NeedsRegeneration(verdict)
    THEN [w EXCEPT !.pc = "regenerate", !.verdicts = Append(@, verdict)]
    ELSE [w EXCEPT !.pc = "done", !.verdicts = Append(@, verdict),
                   !.ret = Returned(index, w.cleaned)]

\* Step 4, the second request: its cleaned result is returned as it is; when
\* the request raises, the inner except clause keeps the first text.
RegenerateStep_Reverified(w, index, c) ==
    LET text == IF c.pc = "raised" THEN w.cleaned ELSE CleanExplanation(c.result.val)
    IN [w EXCEPT !.pc = "generated", !.requests = @ + 1, !.attempts = @ + Tried(c),
                 !.cleaned = text,
                 !.warning = IF c.pc = "raised" THEN c.error ELSE ""]

RegenerateStep_FailureSurfaces(w, index, c) ==
    IF c.pc = "raised"
    THEN [w EXCEPT !.pc = "done", !.requests = @ + 1, !.attempts = @ + Tried(c),
                   !.warning = c.error,
                   !.ret = ProcessFailure(index, c.error)]
    ELSE [w EXCEPT !.pc = "done", !.requests = @ + 1, !.attempts = @ + Tried(c),
                   !.cleaned = CleanExplanation(c.result.val),
                   !.ret = Returned(index, CleanExplanation(c.result.val))]

RegenerateStep(w, index, c) ==
    LET text == IF c.pc = "raised" THEN w.cleaned ELSE CleanExplanation(c.result.val)
    IN [w EXCEPT !.pc = "done", !.requests = @ + 1, !.attempts = @ + Tried(c),
                 !.cleaned = text,
                 !.warning = IF c.pc = "raised" THEN c.error ELSE "",
                 !.ret = Returned(index, text)]

(***************************************************************************)
(* PPTExplanationService.generate_explanations: one task per slide on a    *)
(* thread pool, results collected as the tasks complete                    *)
(***************************************************************************)
MaxSlides == 2

SampleSlide(k) ==
    CASE k = 1 -> "Revenue grew 20% in Q3"
      [] k = 2 -> "- Wear a helmet\n- Report incidents"
      [] OTHER -> "Closing remarks " \o Dec(k)

SampleDeck(n) == [k \in 1..n |-> SampleSlide(k)]

GenScripts ==
    {<<ApiContent("Revenue grew 20% in Q3, so wear a helmet...\n\n**Report** incidents.")>>,
     <<ApiError("Rate limit reached", 429), ApiContent("^ What a quarter - well done!")>>,
     <<ApiError("Rate limit reached", 429), ApiNoContent, ApiError("Connection error.", 0)>>}

RECURSIVE SumLen(_)
SumLen(texts) == IF Len(texts) = 0 THEN 0 ELSE Len(Head(texts)) + SumLen(Tail(texts))

\* max_workers from avg_content_length = sum(len(content)) / len(slides_content)
PoolSize(slides_content) ==
    IF SumLen(slides_content) > 500 * Len(slides_content) THEN 3
    ELSE IF SumLen(slides_content) > 200 * Len(slides_content) THEN 5
    ELSE 8

GenInit ==
    /\ audio = Idle
    /\ chat = Idle
    /\ deck = Idle
    /\ gen = Idle
    /\ call = ClientIdle
    /\ single = Idle
    /\ verifier = Idle
    /\ bulk = Idle
    /\ chunk = Idle

\* generate_explanations(slides_content, ...) up to the submission of the
\* tasks; sentence_model is what the constructor managed to load
GenCall ==
    /\ gen.pc = "idle"
    /\ \E n \in 0..MaxSlides, sentence_model \in {"none", "loaded"} :
          gen' = IF n = 0
                 THEN [pc |-> "raised", error |-> "division by zero",
                       slides_content |-> <<>>, sentence_model |-> sentence_model]
                 ELSE [pc |-> "running",
                       slides_content |-> SampleDeck(n),
                       sentence_model |-> sentence_model,
                       scripts |-> GenScripts,
                       max_workers |-> PoolSize(SampleDeck(n)),
                       worker |-> [index \in 0..(n - 1) |-> NewWorker],
                       explanations |-> [slot \in 0..(n - 1) |-> None],
                       completed_count |-> 0,
                       completion_order |-> <<>>]
    /\ UNCHANGED <<call, bulk, chunk, single, verifier, audio, chat, deck>>

Indices == IF gen.pc \in {"running", "returned"} THEN DOMAIN gen.worker ELSE {}

Active(index) == gen.worker[index].pc \in {"started", "generated", "regenerate"}

\* ThreadPoolExecutor(max_workers=max_workers): a task starts only on a free thread
PoolHasFreeThread_Unbounded(active, max_workers) == TRUE
PoolHasFreeThread(active, max_workers) == active < max_workers

\* A pool thread takes the oldest queued task
WorkerStartAt(index) ==
    /\ gen.pc = "running"
    /\ gen.worker[index].pc = "queued"
    /\ \A other \in Indices : other < index => gen.worker[other].pc # "queued"
    /\ PoolHasFreeThread(Cardinality({other \in Indices : Active(other)}),
                         gen.max_workers)
    /\ gen' = [gen EXCEPT !.worker[index].pc = "started"]
    /\ UNCHANGED <<call, bulk, chunk, single, verifier, audio, chat, deck>>

WorkerGenerateAt(index) ==
    /\ gen.pc = "running"
    /\ gen.worker[index].pc = "started"
    /\ \E script \in gen.scripts, jitter \in JitterSamples :
          gen' = [gen EXCEPT !.worker[index] =
                     GenerateStep(@, index,
                        RunClient(NewCall(Len(gen.slides_content[index + 1])), script, jitter))]
    /\ UNCHANGED <<call, bulk, chunk, single, verifier, audio, chat, deck>>

WorkerVerifyAt(index) ==
    /\ gen.pc = "running"
    /\ gen.worker[index].pc = "generated"
    /\ \E embedding \in IF EmbeddingInvoked(gen.sentence_model,
                                               gen.slides_content[index + 1])
                          THEN {"raises", "similar", "dissimilar"}
                          ELSE {"unused"} :
          gen' = [gen EXCEPT !.worker[index] =
                     VerifyStep(@, index,
                        SemanticVerify(gen.sentence_model, embedding,
                                       gen.slides_content[index + 1], @.cleaned))]
    /\ UNCHANGED <<call, bulk, chunk, single, verifier, audio, chat, deck>>

WorkerRegenerateAt(index) ==
    /\ gen.pc = "running"
    /\ gen.worker[index].pc = "regenerate"
    /\ \E script \in gen.scripts, jitter \in JitterSamples :
          gen' = [gen EXCEPT !.worker[index] =
                     RegenerateStep(@, index,
                        RunClient(NewCall(Len(gen.slides_content[index + 1])), script, jitter))]
    /\ UNCHANGED <<call, bulk, chunk, single, verifier, audio, chat, deck>>

\* explanations[index] = explanation, with index taken from the task's result
\* (from future_to_index when the task raised)
ResultSlot_ByCompletion(ret, completed_count) == completed_count
ResultSlot(ret, completed_count) == ret.index

\* The body of the as_completed loop for one completed task
CollectAt(index) ==
    /\ gen.pc = "running"
    /\ gen.worker[index].pc = "done"
    /\ LET ret == gen.worker[index].ret
           text == IF ret.raised
                   THEN Some("Error generating explanation: " \o ret.message)
                   ELSE ret.text
       IN gen' = [gen EXCEPT
                     !.worker[index].pc = "collected",
                     !.explanations[ResultSlot(ret, gen.completed_count)] = text,
                     !.completed_count = @ + 1,
                     !.completion_order = Append(@, index)]
    /\ UNCHANGED <<call, bulk, chunk, single, verifier, audio, chat, deck>>

\* The pool is shut down and the list returned once every task was collected
AllCollected_FirstCompleted(worker) ==
    \E index \in DOMAIN worker : worker[index].pc = "collected"
AllCollected(worker) ==
    \A index \in DOMAIN worker : worker[index].pc = "collected"

GenReturn ==
    /\ gen.pc = "running"
    /\ AllCollected(gen.worker)
    /\ gen' = [gen EXCEPT !.pc = "returned"]
    /\ UNCHANGED <<call, bulk, chunk, single, verifier, audio, chat, deck>>

WorkerStart == \E index \in Indices : WorkerStartAt(index)
WorkerGenerate == \E index \in Indices : WorkerGenerateAt(index)
WorkerVerify == \E index \in Indices : WorkerVerifyAt(index)
WorkerRegenerate == \E index \in Indices : WorkerRegenerateAt(index)
Collect == \E index \in Indices : CollectAt(index)

GenNext ==
    \/ GenCall
    \/ WorkerStart
    \/ WorkerGenerate
    \/ WorkerVerify
    \/ WorkerRegenerate
    \/ Collect
    \/ GenReturn

SpecGen == GenInit /\ [][GenNext]_vars

\* Some worker is at the given step
WorkerAt(pc) == gen.pc = "running" /\ \E index \in Indices : gen.worker[index].pc = pc

\* Every attempt of the completion client ends and the pool threads and the
\* collecting thread keep being scheduled: a step that stays possible is
\* taken. For the request and verification steps the weak fairness condition
\* is written with the enabling condition spelled out (a worker is at that
\* step).
SpecGenFair ==
    /\ SpecGen
    /\ WF_vars(GenCall)
    /\ WF_vars(WorkerStart)
    /\ WF_vars(Collect)
    /\ WF_vars(GenReturn)
    /\ []<>(~WorkerAt("started")) \/ []<><<WorkerGenerate>>_vars
    /\ []<>(~WorkerAt("generated")) \/ []<><<WorkerVerify>>_vars
    /\ []<>(~WorkerAt("regenerate")) \/ []<><<WorkerRegenerate>>_vars

(***************************************************************************)
(* generate_explanations on decks of long slides, where the pool is        *)
(* smaller than the deck                                                   *)
(***************************************************************************)
MaxDeck == 4

RECURSIVE Repeat(_, _)
Repeat(text, n) ==
    IF n <= 0 THEN ""
    ELSE IF n % 2 = 0 THEN LET half == Repeat(text, n \div 2) IN half \o half
    ELSE text \o Repeat(text, n - 1)

\* A slide text of the given length; the odd slides carry numbers the
\* sample completion repeats, the even ones a number it does not
LongSlide(k, length) ==
    LET opening == IF k % 2 = 1 THEN "Revenue grew 20% in Q3 " ELSE "Audit 7 sites "
    IN opening \o Repeat(".", length - Len(opening))

\* Decks of 501-character slides, which get the smallest pool, and pairs of
\* slides whose average length sits on and just above the two thresholds
LongDecks ==
    {[k \in 1..n |-> LongSlide(k, 501)] : n \in 1..MaxDeck}
    \cup {<<LongSlide(1, first), LongSlide(2, 100)>> : first \in {300, 302, 900, 902}}

\* generate_explanations on such a deck, no sentence model loaded and a
\* completion service that answers every first attempt
PoolCall ==
    /\ gen.pc = "idle"
    /\ \E slides_content \in LongDecks :
          LET n == Len(slides_content)
          IN gen' = [pc |-> "running",
                     slides_content |-> slides_content,
                     sentence_model |-> "none",
                     scripts |-> {<<ApiContent("Revenue grew 20% in Q3, so wear a helmet.")>>},
                     max_workers |-> PoolSize(slides_content),
                     worker |-> [index \in 0..(n - 1) |-> NewWorker],
                     explanations |-> [slot \in 0..(n - 1) |-> None],
                     completed_count |-> 0,
                     completion_order |-> <<>>]
    /\ UNCHANGED <<call, bulk, chunk, single, verifier, audio, chat, deck>>

PoolNext ==
    \/ PoolCall
    \/ WorkerStart
    \/ WorkerGenerate
    \/ WorkerVerify
    \/ WorkerRegenerate
    \/ Collect
    \/ GenReturn

SpecPool == GenInit /\ [][PoolNext]_vars

(***************************************************************************)
(* SlideEnhancementService.enhance_specific_slides                         *)
(***************************************************************************)

\* _clean_explanation: explanation.replace("Explanation:", "").strip()
StripPrefix(explanation) == Strip(Replace(explanation, "Explanation:", ""))

OutOfRangeMessage(total) == "Query index must be between 0 and " \o
                            (IF total = 0 THEN "-1" ELSE Dec(total - 1))

\* SlideEnhancementService._validate_input: the message of the error it
\* raises, "" when it passes
ValidateTarget_UpperBoundOnly(explanation_array, query_index) ==
    IF Len(explanation_array) = 0 THEN "Explanation array cannot be empty"
    ELSE IF \E k \in 1..Len(explanation_array) :
                ~({"slide", "content", "explanation"} \subseteq DOMAIN explanation_array[k])
         THEN "Each item must contain 'slide', 'content', and 'explanation' keys"
    ELSE IF query_index >= Len(explanation_array)
         THEN OutOfRangeMessage(Len(explanation_array))
    ELSE ""

ValidateTarget(explanation_array, query_index) ==
    IF Len(explanation_array) = 0 THEN "Explanation array cannot be empty"
    ELSE IF \E k \in 1..Len(explanation_array) :
                ~({"slide", "content", "explanation"} \subseteq DOMAIN explanation_array[k])
         THEN "Each item must contain 'slide', 'content', and 'explanation' keys"
    ELSE IF query_index < 0 \/ query_index >= Len(explanation_array)
         THEN OutOfRangeMessage(Len(explanation_array))
    ELSE ""

\* [{**item, 'explanation': self._clean_explanation(item['explanation'])} ...]
CleanedArray(explanation_array) ==
    [k \in 1..Len(explanation_array) |->
        [explanation_array[k] EXCEPT !.explanation = StripPrefix(@)]]

\* updated_array = explanation_array.copy()
CopyForUpdate_Cleaned(explanation_array, cleaned_array) == cleaned_array
CopyForUpdate(explanation_array, cleaned_array) == explanation_array

\* updated_array[query_index] = {**updated_array[query_index], 'explanation': ...}
ReplaceTarget(updated_array, query_index, enhanced_explanation) ==
    [updated_array EXCEPT ![query_index + 1] =
        [@ EXCEPT !.explanation = StripPrefix(enhanced_explanation)]]

TargetUnit(i) ==
    [slide |-> i, content |-> "Topic " \o Dec(i),
     explanation |-> IF i % 2 = 1 THEN "Explanation: Original " \o Dec(i) \o " "
                     ELSE "Original " \o Dec(i)]

TargetUnits(n) == [i \in 1..n |-> TargetUnit(i)]

SingleScripts ==
    {<<ApiContent("Explanation: Sharper.\n")>>,
     <<ApiContent("")>>,
     <<ApiContent("Tighter.")>>,
     <<ApiContent(" Explanation:Explanation: Twice over ")>>,
     <<ApiError("Rate limit reached", 429), ApiNoContent, ApiContent("Clearer now.")>>,
     <<ApiError("Rate limit reached", 429), ApiError("Rate limit reached", 429),
       ApiError("Connection error.", 0)>>}

SingleInit ==
    /\ audio = Idle
    /\ chat = Idle
    /\ deck = Idle
    /\ single = Idle
    /\ call = ClientIdle
    /\ bulk = Idle
    /\ chunk = Idle
    /\ gen = Idle
    /\ verifier = Idle

\* enhance_specific_slides up to the request: validation, cleaned copies,
\* context
SingleCall ==
    /\ single.pc = "idle"
    /\ \E n \in 0..MaxUnits, query_index \in (-2)..(MaxUnits + 1),
          missing \in {"", "slide", "content", "explanation"} :
          LET explanation_array == WithoutKey(TargetUnits(n), missing)
              invalid == ValidateTarget(explanation_array, query_index)
          IN single' = [pc |-> IF invalid = "" THEN "requesting" ELSE "raised",
                        explanation_array |-> explanation_array,
                        query_index |-> query_index,
                        updated_array |-> <<>>,
                        requests |-> 0,
                        attempts |-> 0,
                        error |-> invalid]
    /\ UNCHANGED <<call, bulk, chunk, gen, verifier, audio, chat, deck>>

\* The request, the replacement of the target unit and the return
SingleRequest ==
    /\ single.pc = "requesting"
    /\ \E script \in SingleScripts, jitter \in JitterSamples :
          LET cleaned_array == CleanedArray(single.explanation_array)
              c == RunClient(NewCall(Len(Context(cleaned_array))), script, jitter)
              tried == Len(SelectSeq(c.events, LAMBDA e : e.ev = "attempt"))
          IN IF c.pc = "raised"
             THEN single' = [single EXCEPT !.pc = "raised", !.error = c.error,
                                           !.requests = @ + 1, !.attempts = @ + tried]
             ELSE single' = [single EXCEPT
                                !.pc = "returned",
                                !.requests = @ + 1,
                                !.attempts = @ + tried,
                                !.updated_array =
                                    ReplaceTarget(CopyForUpdate(single.explanation_array,
                                                                cleaned_array),
                                                  single.query_index, c.result.val)]
    /\ UNCHANGED <<call, bulk, chunk, gen, verifier, audio, chat, deck>>

SingleNext == SingleCall \/ SingleRequest

SpecSingle == SingleInit /\ [][SingleNext]_vars

(***************************************************************************)
(* The coverage verifier applied to one source text and one explanation    *)
(***************************************************************************)
MaxContentPieces == 3

ContentPieces == {"- ", "Wear", " 12 kits", "\n", "Follow-up", "7"}

RECURSIVE SourceTexts(_)
SourceTexts(n) ==
    IF n = 0 THEN {""}
    ELSE LET shorter == SourceTexts(n - 1)
         IN shorter \cup {t \o piece : t \in shorter, piece \in ContentPieces}

SampleExplanations ==
    {"", "Please wear one of the 12 kits.", "Follow up with all 127 kits", "We check in later."}

VerifierInit ==
    /\ audio = Idle
    /\ chat = Idle
    /\ deck = Idle
    /\ \E original_content \in SourceTexts(MaxContentPieces),
          explanation \in SampleExplanations :
          verifier = [pc |-> "ready", original_content |-> original_content,
                      explanation |-> explanation]
    /\ call = ClientIdle
    /\ bulk = Idle
    /\ chunk = Idle
    /\ gen = Idle
    /\ single = Idle

\* _verify_content_coverage(original_content, explanation)
VerifyLexical ==
    /\ verifier.pc = "ready"
    /\ verifier' = [pc |-> "done", path |-> "lexical",
                    original_content |-> verifier.original_content,
                    explanation |-> verifier.explanation,
                    sentence_model |-> "none", embedding |-> "unused",
                    verdict |-> VerifyContentCoverage(verifier.original_content,
                                                      verifier.explanation)]
    /\ UNCHANGED <<call, bulk, chunk, gen, single, audio, chat, deck>>

\* _semantic_verify_content_coverage(original_content, explanation)
VerifySemantic ==
    /\ verifier.pc = "ready"
    /\ \E sentence_model \in {"none", "loaded"},
          embedding \in {"raises", "similar", "dissimilar"} :
          verifier' = [pc |-> "done", path |-> "semantic",
                       original_content |-> verifier.original_content,
                       explanation |-> verifier.explanation,
                       sentence_model |-> sentence_model,
                       embedding |-> IF EmbeddingInvoked(sentence_model,
                                                         verifier.original_content)
                                     THEN embedding ELSE "unused",
                       verdict |-> SemanticVerify(sentence_model, embedding,
                                                  verifier.original_content,
                                                  verifier.explanation)]
    /\ UNCHANGED <<call, bulk, chunk, gen, single, audio, chat, deck>>

VerifierNext == VerifyLexical \/ VerifySemantic

SpecVerify == VerifierInit /\ [][VerifierNext]_vars

Finished(w) == w.pc \in {"done", "collected"}

\* C8: a unit whose first cleaned output passes verification has issued
\* exactly one completion request, one whose output fails has issued exactly
\* two once it finishes; the regenerated output is never verified, so no
\* unit issues a third request.
C8_RegenerationBound ==
    \A index \in Indices :
       LET w == gen.worker[index]
       IN /\ w.requests <= 2
          /\ Len(w.verdicts) <= 1
          /\ w.pc = "regenerate" => w.verdicts = <<FALSE>> /\ w.requests = 1
          /\ Finished(w) /\ w.verdicts = <<TRUE>> => w.requests = 1
          /\ Finished(w) /\ w.verdicts = <<FALSE>> => w.requests = 2

\* A unit finished after one regeneration whose accepted text does not cover
\* the slide (no embedding model: the lexical check is the verdict)
C8_Witness ==
    /\ gen.pc = "running"
    /\ gen.sentence_model = "none"
    /\ \E index \in Indices :
          LET w == gen.worker[index]
          IN /\ w.pc = "done"
             /\ w.verdicts = <<FALSE>>
             /\ w.requests = 2
             /\ ~w.ret.raised
             /\ ~VerifyContentCoverage(gen.slides_content[index + 1], w.ret.text.val)

\* C9: the unit processor never raises; a finished unit has returned its own
\* index and a string, and when its first generation failed the string is the
\* placeholder "Error generating explanation: " followed by the error message.
C9_NeverRaises ==
    \A index \in Indices :
       LET w == gen.worker[index]
       IN Finished(w) =>
             /\ ~w.ret.raised
             /\ w.ret.index = index
             /\ w.ret.text.some
             /\ w.failure # "" =>
                   w.ret.text = Some("Error generating explanation: " \o w.failure)

\* A unit whose first request failed on all three attempts
C9_Witness ==
    \E index \in Indices :
       LET w == gen.worker[index]
       IN /\ w.pc = "done"
          /\ w.requests = 1
          /\ w.ret.text =
                Some("Error generating explanation: Error code: 500 - Connection error.")

\* C10: the returned list holds at position i the result produced for input
\* unit i, whatever the order in which the units completed.
C10_InputOrderRestored ==
    gen.pc = "returned" =>
       \A index \in Indices : gen.explanations[index] = gen.worker[index].ret.text

\* Two units with different results, the second completed first
C10_Witness ==
    /\ gen.pc = "returned"
    /\ gen.completion_order = <<1, 0>>
    /\ gen.explanations[0] # gen.explanations[1]
    /\ gen.explanations[1] = gen.worker[1].ret.text

\* C11: generate_explanations returns only after every unit has finished and
\* been collected; the returned list then has one entry per input unit and
\* every entry is a string, whichever units failed.
C11_CompleteResult ==
    gen.pc = "returned" =>
       /\ DOMAIN gen.explanations = 0..(Len(gen.slides_content) - 1)
       /\ \A index \in DOMAIN gen.explanations :
             /\ gen.worker[index].pc = "collected"
             /\ gen.explanations[index].some

\* A returned call with one failed and one successful unit
C11_Witness ==
    /\ gen.pc = "returned"
    /\ Len(gen.slides_content) = 2
    /\ gen.worker[0].failure # ""
    /\ gen.worker[1].failure = ""
    /\ gen.explanations[0].some /\ gen.explanations[1].some

\* The inputs the validation must reject: an empty collection, a unit that
\* lacks slide, content or explanation, a batch size that is not positive
InvalidBulkInput(explanation_array, batch_size) ==
    \/ Len(explanation_array) = 0
    \/ \E k \in 1..Len(explanation_array) :
          \E key \in {"slide", "content", "explanation"} :
             key \notin DOMAIN explanation_array[k]
    \/ batch_size <= 0

\* C15: enhance_all_slides rejects an invalid input before any completion
\* request is issued and without correcting it.
C15_InvalidInputRejected ==
    bulk.pc # "idle" /\ InvalidBulkInput(bulk.explanation_array, bulk.batch_size) =>
       /\ bulk.pc = "raised"
       /\ bulk.error \in {"Explanation array cannot be empty",
                          "Each item must contain 'slide', 'content', and 'explanation' keys",
                          "Batch size must be a positive integer"}
       /\ bulk.trace = <<>>
       /\ bulk.attempts = 0
       /\ bulk.updated_array = bulk.explanation_array

\* A rejected call whose only fault is a batch size of zero
C15_Witness ==
    /\ bulk.pc = "raised"
    /\ Len(bulk.explanation_array) = 2
    /\ bulk.batch_size = 0
    /\ DOMAIN bulk.explanation_array[2] = {"slide", "content", "explanation"}
    /\ bulk.error = "Batch size must be a positive integer"
    /\ bulk.trace = <<>>

Requests(trace) == Len(SelectSeq(trace, LAMBDA step : step = "request"))

\* C16: when the request of a chunk fails after its retries, the call raises
\* that error: nothing is returned, no request follows for a later chunk and
\* the caller's collection is as it was passed in.
C16_ChunkFailurePropagates ==
    /\ [](bulk.pc # "idle" /\ bulk.error # "" =>
             /\ bulk.pc = "raised"
             /\ bulk.trace # <<>> =>
                   /\ StartsAt(bulk.error, 1, "Error code: ")
                   /\ bulk.trace[Len(bulk.trace)] = "request"
                   /\ Requests(bulk.trace) = (bulk.i \div bulk.batch_size) + 1)
    /\ [][/\ bulk.pc = "raised" => bulk' = bulk
          /\ bulk.pc # "idle" => bulk'.explanation_array = bulk.explanation_array]_vars

\* The second chunk failed after the first one had been enhanced
C16_Witness ==
    /\ bulk.pc = "raised"
    /\ bulk.trace = <<"request", "pause", "request">>
    /\ bulk.attempts = 4
    /\ bulk.updated_array[1].explanation # bulk.explanation_array[1].explanation
    /\ bulk.explanation_array = SampleUnits(3)

\* C17: the chunks are requested one after another in input order, one
\* request per chunk, a pause between two successive requests and none after
\* the last: a returned call has made ceil(len/batch_size) requests.
C17_OneRequestPerChunk ==
    bulk.pc \in {"running", "returned"} =>
       LET total == Len(bulk.explanation_array)
           chunks == (total + bulk.batch_size - 1) \div bulk.batch_size
       IN /\ \A k \in 1..Len(bulk.trace) :
                bulk.trace[k] = IF k % 2 = 1 THEN "request" ELSE "pause"
          /\ Requests(bulk.trace) * bulk.batch_size = bulk.i
          /\ bulk.pc = "running" => Len(bulk.trace) = 2 * Requests(bulk.trace)
          /\ bulk.pc = "returned" =>
                /\ Requests(bulk.trace) = chunks
                /\ Len(bulk.trace) = 2 * chunks - 1

\* Three units in chunks of two: two requests with one pause between them
C17_Witness ==
    /\ bulk.pc = "returned"
    /\ Len(bulk.explanation_array) = 3
    /\ bulk.batch_size = 2
    /\ bulk.trace = <<"request", "pause", "request">>

TargetOutOfRange ==
    /\ single.pc # "idle"
    /\ \/ single.query_index < 0
       \/ single.query_index >= Len(single.explanation_array)

WellFormed(explanation_array) ==
    \A k \in 1..Len(explanation_array) :
       {"slide", "content", "explanation"} \subseteq DOMAIN explanation_array[k]

\* C13 as stated: every target index below 0 or at or above len(units) makes
\* enhance_specific_slides fail with the out-of-range error before any
\* completion request.
C13_OutOfRangeError ==
    TargetOutOfRange =>
       /\ single.pc = "raised"
       /\ single.error = OutOfRangeMessage(Len(single.explanation_array))
       /\ single.requests = 0

\* C13 amended: such a call always fails before any completion request; the
\* error is the out-of-range one when the collection is non-empty and every
\* unit is complete, and the error of the earlier check otherwise.
C13_OutOfRangeFailsFirst ==
    TargetOutOfRange =>
       /\ single.pc = "raised"
       /\ single.requests = 0
       /\ single.attempts = 0
       /\ single.error =
             IF Len(single.explanation_array) = 0
             THEN "Explanation array cannot be empty"
             ELSE IF ~WellFormed(single.explanation_array)
             THEN "Each item must contain 'slide', 'content', and 'explanation' keys"
             ELSE OutOfRangeMessage(Len(single.explanation_array))

\* A negative index into a complete collection of two units
C13_Witness ==
    /\ single.pc = "raised"
    /\ single.query_index = -1
    /\ single.explanation_array = TargetUnits(2)
    /\ single.error = "Query index must be between 0 and 1"
    /\ single.requests = 0

\* C14: a returned enhance_specific_slides call gives a collection of the
\* same length in which every unit but the target is the input unit, and the
\* target keeps its slide and content.
C14_OnlyTargetRewritten ==
    single.pc = "returned" =>
       /\ Len(single.updated_array) = Len(single.explanation_array)
       /\ \A k \in 1..Len(single.explanation_array) :
             IF k = single.query_index + 1
             THEN /\ DOMAIN single.updated_array[k] = DOMAIN single.explanation_array[k]
                  /\ single.updated_array[k].slide = single.explanation_array[k].slide
                  /\ single.updated_array[k].content = single.explanation_array[k].content
             ELSE single.updated_array[k] = single.explanation_array[k]

\* The second of three units rewritten; the first keeps its "Explanation:"
\* prefix and trailing blank
C14_Witness ==
    /\ single.pc = "returned"
    /\ single.explanation_array = TargetUnits(3)
    /\ single.query_index = 1
    /\ single.updated_array[1].explanation = "Explanation: Original 1 "
    /\ single.updated_array[2].explanation = "Sharper."
    /\ single.updated_array[3] = TargetUnit(3)

\* C18: when no sentence model is loaded, or an embedding call raises, the
\* semantic verifier gives the verdict of the lexical verifier on the same
\* source text and explanation.
C18_FallbackIsLexical ==
    /\ verifier.pc = "done"
    /\ verifier.path = "semantic"
    /\ verifier.sentence_model = "none" \/ verifier.embedding = "raises"
    => verifier.verdict =
          VerifyContentCoverage(verifier.original_content, verifier.explanation)

\* An embedding call raised on a text with a bullet and a number, both covered
C18_Witness ==
    /\ verifier.pc = "done"
    /\ verifier.path = "semantic"
    /\ verifier.sentence_model = "loaded"
    /\ verifier.embedding = "raises"
    /\ verifier.original_content = "- Wear 12 kits"
    /\ verifier.explanation = "Please wear one of the 12 kits."
    /\ verifier.verdict

\* The bullet terms as the claim describes them: the first three words of
\* each line of the source that starts with a bullet character
RECURSIVE LineBulletTerms(_)
LineBulletTerms(lines) ==
    IF Len(lines) = 0 THEN <<>>
    ELSE LET line == Strip(Head(lines))
         IN (IF Len(line) > 0 /\ IsBulletChar(Char(line, 1))
             THEN Take(Words(SubSeq(line, 2, Len(line))), 3)
             ELSE <<>>) \o LineBulletTerms(Tail(lines))

\* C19 as stated: the lexical verifier passes exactly when every digit run of
\* the source occurs in the explanation and at least 70% of the first three
\* words of the bullet-prefixed lines occur in it, case-insensitively; a
\* source without digits and without such lines always passes.
C19_LexicalVerdict ==
    verifier.pc = "done" /\ verifier.path = "lexical" =>
       LET terms == LineBulletTerms(Split(verifier.original_content, "\n"))
           lowered == Lower(verifier.explanation)
           covered == Cardinality({k \in 1..Len(terms) :
                                      Contains(lowered, Lower(terms[k]))})
       IN verifier.verdict =
             (/\ NumbersCovered(verifier.original_content, verifier.explanation)
              /\ covered * 10 >= Len(terms) * 7)

\* C12: the worker bound is 3 when the average length of the slide texts is
\* above 500, 5 when it is above 200 and 8 otherwise, and never more than
\* that many units are being processed at once.
C12_WorkerBound ==
    gen.pc \in {"running", "returned"} =>
       LET total == SumLen(gen.slides_content)
           count == Len(gen.slides_content)
       IN /\ gen.max_workers = IF total > 500 * count THEN 3
                               ELSE IF total > 200 * count THEN 5 ELSE 8
          /\ Cardinality({index \in Indices : Active(index)}) <= gen.max_workers

\* Four slides of 501 characters: three in progress, the fourth waiting
\* (the pairs of slides average 200, 201, 500 and 501 characters)
C12_Witness ==
    /\ gen.pc = "running"
    /\ Len(gen.slides_content) = 4
    /\ \A k \in 1..4 : Len(gen.slides_content[k]) = 501
    /\ gen.max_workers = 3
    /\ \A index \in 0..2 : Active(index)
    /\ gen.worker[3].pc = "queued"

\* C20 as stated: with attempts that end and fair scheduling,
\* generate_explanations eventually returns for every input, and no unit uses
\* more than 6 completion attempts.
C20_EventuallyReturns ==
    /\ <>(gen.pc = "returned")
    /\ [](\A index \in Indices : gen.worker[index].attempts <= 6)

(***************************************************************************)
(* TranscriptionService: transcribe_audio on one file and                  *)
(* transcribe_multiple_audio on a list of files                            *)
(***************************************************************************)
supported_formats == <<"flac", "m4a", "mp3", "mp4", "mpeg", "mpga", "oga", "ogg", "wav", "webm">>

\* The last position of character c in s, 0 when there is none: s.rfind(c) + 1
RFind(s, c) ==
    IF \A j \in 1..Len(s) : Char(s, j) # c THEN 0
    ELSE CHOOSE j \in 1..Len(s) : Char(s, j) = c /\ \A h \in (j + 1)..Len(s) : Char(s, h) # c

\* os.path.splitext(file_path)[1]: the text from the last dot of the last
\* path component on, unless only dots precede it in that component
SplitExt(file_path) ==
    LET sepIndex == RFind(file_path, "/")
        dotIndex == RFind(file_path, ".")
    IN  IF dotIndex > sepIndex
           /\ \E k \in (sepIndex + 1)..(dotIndex - 1) : Char(file_path, k) # "."
        THEN SubSeq(file_path, dotIndex, Len(file_path))
        ELSE ""

ValidateFileFormat_AnyExtension(file_path) == SplitExt(file_path) # ""

\* _validate_file_format
ValidateFileFormat(file_path) ==
    LET ext == SplitExt(file_path)
        format_type == Lower(SubSeq(ext, 2, Len(ext)))
    IN  IF ext = "" THEN FALSE
        ELSE IF format_type \in {"mp3", "mpeg"} THEN TRUE
        ELSE \E k \in 1..Len(supported_formats) : supported_formats[k] = format_type

\* What happens once the format is accepted: open() raises, or the file is
\* opened and the transcription capability answers or raises
FileOutcomes == {"ok", "no_such_file", "api_error"}

OutcomeMessage(outcome) ==
    IF outcome = "no_such_file" THEN "[Errno 2] No such file or directory" ELSE "Connection error."

\* transcribe_audio(audio_file_path): any exception is re-raised as Exception
TranscribeAudioResult(audio_file_path, outcome) ==
    LET valid == ValidateFileFormat(audio_file_path)
        message == IF ~valid
                   THEN "Unsupported file format. Supported formats are: " \o Join(", ", supported_formats)
                   ELSE OutcomeMessage(outcome)
    IN  [pc |-> IF valid /\ outcome = "ok" THEN "returned" ELSE "raised",
         op |-> "transcribe_audio",
         audio_file_path |-> audio_file_path,
         opened |-> valid,
         requests |-> IF valid /\ outcome # "no_such_file" THEN 1 ELSE 0,
         error |-> IF valid /\ outcome = "ok" THEN "" ELSE "Failed to transcribe audio: " \o message]

\* _transcribe_single_audio(audio_file_path): never raises
TranscribeSingleAudio(audio_file_path, outcome) ==
    LET valid == ValidateFileFormat(audio_file_path) IN
    [file_path |-> audio_file_path,
     success |-> valid /\ outcome = "ok",
     error |-> IF ~valid THEN "Unsupported file format: " \o audio_file_path
               ELSE IF outcome = "ok" THEN "" ELSE OutcomeMessage(outcome)]

\* audio_file_paths.index(file_path) + 1
FirstIndex(audio_file_paths, file_path) ==
    CHOOSE k \in 1..Len(audio_file_paths) :
        audio_file_paths[k] = file_path /\ \A h \in 1..(k - 1) : audio_file_paths[h] # file_path

RECURSIVE SortFrom(_, _, _)
\* The results whose key is k, in the order they have in results, followed by
\* those with a larger key: list.sort is stable
SortFrom(results, audio_file_paths, k) ==
    IF k > Len(audio_file_paths) THEN <<>>
    ELSE SelectSeq(results, LAMBDA r : FirstIndex(audio_file_paths, r.file_path) = k)
            \o SortFrom(results, audio_file_paths, k + 1)

\* results.sort(key=lambda x: audio_file_paths.index(x['file_path']))
SortResults(results, audio_file_paths) == SortFrom(results, audio_file_paths, 1)

MaxFiles == 3
max_concurrent_transcriptions == 3

SinglePaths == {"clip.xyz", "clip", "a.mp3", "A.MP3", "b.Wav", ".mp3", "v1.2/clip", "talk.", "c.mpeg", "d.mp3.txt"}
BatchPaths == {"a.mp3", "b.wav", "clip.xyz"}

AudioInit ==
    /\ audio = Idle
    /\ call = ClientIdle
    /\ bulk = Idle
    /\ chunk = Idle
    /\ gen = Idle
    /\ single = Idle
    /\ verifier = Idle
    /\ chat = Idle
    /\ deck = Idle

\* transcribe_audio, the whole call
TranscribeAudio ==
    /\ audio.pc = "idle"
    /\ \E audio_file_path \in SinglePaths, outcome \in FileOutcomes :
          audio' = TranscribeAudioResult(audio_file_path, outcome)
    /\ UNCHANGED <<call, bulk, chunk, gen, single, verifier, chat, deck>>

\* transcribe_multiple_audio up to the submission of one task per path
BatchCall ==
    /\ audio.pc = "idle"
    /\ \E n \in 0..MaxFiles : \E audio_file_paths \in [1..n -> BatchPaths] :
          audio' = IF n = 0
                   THEN [pc |-> "raised", op |-> "transcribe_multiple_audio",
                         audio_file_paths |-> audio_file_paths,
                         error |-> "No audio files provided for transcription"]
                   ELSE [pc |-> "running", op |-> "transcribe_multiple_audio",
                         audio_file_paths |-> audio_file_paths,
                         job |-> [i \in 1..n |-> "queued"],
                         results |-> <<>>]
    /\ UNCHANGED <<call, bulk, chunk, gen, single, verifier, chat, deck>>

RunningJobs == {i \in DOMAIN audio.job : audio.job[i] = "running"}

\* A pool thread takes the next submitted task
JobStart ==
    /\ audio.pc = "running"
    /\ \E i \in DOMAIN audio.job :
          /\ audio.job[i] = "queued"
          /\ \A h \in 1..(i - 1) : audio.job[h] # "queued"
          /\ Cardinality(RunningJobs) < max_concurrent_transcriptions
          /\ audio' = [audio EXCEPT !.job[i] = "running"]
    /\ UNCHANGED <<call, bulk, chunk, gen, single, verifier, chat, deck>>

\* A task ends and as_completed hands its future to the collecting loop,
\* which appends the task's result
JobComplete ==
    /\ audio.pc = "running"
    /\ \E i \in RunningJobs, outcome \in {"ok", "api_error"} :
          LET result == TranscribeSingleAudio(audio.audio_file_paths[i], outcome) IN
          audio' = [audio EXCEPT
                      !.job[i] = "collected",
                      !.results = Append(@, result)]
    /\ UNCHANGED <<call, bulk, chunk, gen, single, verifier, chat, deck>>

\* All futures are collected: sort and return
BatchReturn ==
    /\ audio.pc = "running"
    /\ \A i \in DOMAIN audio.job : audio.job[i] = "collected"
    /\ audio' = [pc |-> "returned", op |-> "transcribe_multiple_audio",
                 audio_file_paths |-> audio.audio_file_paths,
                 collected |-> audio.results,
                 results |-> SortResults(audio.results, audio.audio_file_paths)]
    /\ UNCHANGED <<call, bulk, chunk, gen, single, verifier, chat, deck>>

AudioNext == TranscribeAudio \/ BatchCall \/ JobStart \/ JobComplete \/ BatchReturn

SpecAudio == AudioInit /\ [][AudioNext]_vars

\* C21: transcribe_multiple_audio returns one result per input path, and
\* result i carries the file path of input position i, whatever the order in
\* which the jobs complete and also when a path occurs more than once.
C21_ResultsFollowInput ==
    (audio.pc = "returned" /\ audio.op = "transcribe_multiple_audio") =>
        /\ Len(audio.results) = Len(audio.audio_file_paths)
        /\ \A i \in 1..Len(audio.results) :
              audio.results[i].file_path = audio.audio_file_paths[i]

\* The extension, compared case-insensitively, is missing or not in the allow-list
Unsupported(file_path) ==
    LET ext == SplitExt(file_path) IN
    \/ ext = ""
    \/ \A k \in 1..Len(supported_formats) :
          supported_formats[k] # Lower(SubSeq(ext, 2, Len(ext)))

\* C22: transcribe_audio on a path with no extension or with an extension
\* outside the allow-list (case-insensitively) fails with the validation
\* error, without opening the file and without a transcription request.
C22_UnsupportedRejected ==
    (audio.pc # "idle" /\ audio.op = "transcribe_audio" /\ Unsupported(audio.audio_file_path)) =>
        /\ audio.pc = "raised"
        /\ StartsAt(audio.error, 1, "Failed to transcribe audio: Unsupported file format")
        /\ ~audio.opened
        /\ audio.requests = 0

C22_Witness ==
    /\ audio.pc = "raised"
    /\ audio.op = "transcribe_audio"
    /\ audio.audio_file_path = "clip.xyz"
    /\ ~audio.opened
    /\ audio.requests = 0

(***************************************************************************)
(* enhance_all_slides on the one-unit scenario: source text "Revenue grew  *)
(* 20% in Q3", empty explanation, batch size 1                             *)
(***************************************************************************)
ScenarioUnits == <<[slide |-> 0, content |-> "Revenue grew 20% in Q3", explanation |-> ""]>>

\* Texts the completion capability may answer with: up to three pieces
ScenarioPieces == {"", "Revenue is up 20%", "Great news!", "\n\n", "20", " ", "Q3 was strong.", "!"}
ScenarioScripts ==
    {<<ApiContent(a \o b \o c)>> : a \in ScenarioPieces, b \in ScenarioPieces, c \in ScenarioPieces}
    \cup {<<ApiError("Rate limit reached", 429), ApiContent("Sales rose by 20 percent!")>>,
          <<ApiError("Rate limit reached", 429), ApiError("Connection error.", 0),
            ApiError("Rate limit reached", 429)>>}

\* enhance_all_slides(ScenarioUnits, "make it upbeat", 1) up to the loop
ScenarioCall ==
    /\ bulk.pc = "idle"
    /\ LET invalid == ValidateInput(ScenarioUnits, 1) IN
       bulk' = [pc |-> IF invalid = "" THEN "running" ELSE "raised",
                explanation_array |-> ScenarioUnits,
                batch_size |-> 1,
                i |-> 0,
                updated_array |-> ScenarioUnits,
                trace |-> <<>>,
                attempts |-> 0,
                error |-> invalid]
    /\ UNCHANGED <<call, chunk, gen, single, verifier, audio, chat, deck>>

ScenarioChunk == BulkChunkWith(ScenarioScripts)

ScenarioNext == ScenarioCall \/ ScenarioChunk

SpecScenario == BulkInit /\ [][ScenarioNext]_vars

\* C23: on the one-unit scenario enhance_all_slides returns one unit at
\* index 0 whose explanation is non-empty and contains "20", after at most
\* one regeneration (at most two completion requests).
C23_ScenarioKeepsNumber ==
    bulk.pc = "returned" =>
        /\ Len(bulk.updated_array) = 1
        /\ bulk.updated_array[1].slide = 0
        /\ bulk.updated_array[1].explanation # ""
        /\ Contains(bulk.updated_array[1].explanation, "20")
        /\ Len(SelectSeq(bulk.trace, LAMBDA e : e = "request")) <= 2

(***************************************************************************)
(* The unit processor on completion texts made of the characters the       *)
(* cleaning step rewrites                                                  *)
(***************************************************************************)
MarkupPieces == {"", ".", "..", "**", "\n", "-", "^"}

\* Completion texts: up to three pieces of markup, alone or inside a sentence
MarkupTexts ==
    {head \o a \o b \o c \o tail :
        head \in {"", "Audit 7"}, a \in MarkupPieces, b \in MarkupPieces,
        c \in MarkupPieces, tail \in {"", " sites"}}

\* generate_explanations on a one-slide deck, the capability answering with
\* any of the texts above
MarkupCall ==
    /\ gen.pc = "idle"
    /\ gen' = [pc |-> "running",
               slides_content |-> <<"Audit 7 sites">>,
               sentence_model |-> "none",
               scripts |-> {<<ApiContent(text)>> : text \in MarkupTexts}
                           \cup {<<ApiError("Rate limit reached", 429),
                                   ApiError("Connection error.", 0),
                                   ApiError("Rate limit reached", 429)>>},
               max_workers |-> PoolSize(<<"Audit 7 sites">>),
               worker |-> [index \in {0} |-> NewWorker],
               explanations |-> [slot \in {0} |-> None],
               completed_count |-> 0,
               completion_order |-> <<>>]
    /\ UNCHANGED <<call, bulk, chunk, single, verifier, audio, chat, deck>>

MarkupNext ==
    \/ MarkupCall
    \/ WorkerStart
    \/ WorkerGenerate
    \/ WorkerVerify
    \/ WorkerRegenerate
    \/ Collect
    \/ GenReturn

SpecMarkup == GenInit /\ [][MarkupNext]_vars

\* C24: the explanation a unit returns after cleaning a completion text has
\* no bullet character, no hyphen, no "**", no "...", no double newline and
\* no leading or trailing whitespace.
C24_NormalizedIsClean ==
    \A index \in Indices :
        LET w == gen.worker[index] IN
        (w.pc \in {"done", "collected"} /\ w.failure = "") =>
            LET text == w.ret.text.val IN
            /\ ~Contains(text, Bullet)
            /\ ~Contains(text, "-")
            /\ ~Contains(text, "**")
            /\ ~Contains(text, "...")
            /\ ~Contains(text, "\n\n")
            /\ Strip(text) = text

(***************************************************************************)
(* SlideEnhancementService.get_enhancement_suggestions                     *)
(***************************************************************************)
\* s.strip(chars)
StripChars(s, chars) ==
    LET kept == {j \in 1..Len(s) : ~Contains(chars, Char(s, j))} IN
    IF kept = {} THEN ""
    ELSE SubSeq(s, CHOOSE j \in kept : \A h \in kept : j <= h,
                   CHOOSE j \in kept : \A h \in kept : h <= j)

\* suggestions.strip().split('\n'), keeping the lines with s.strip() non-empty
NonBlankLines(suggestions) ==
    SelectSeq(Split(Strip(suggestions), "\n"), LAMBDA s : Strip(s) # "")

\* [s.strip('- ') for s in suggestions.strip().split('\n') if s.strip()]
ParseSuggestions(suggestions) ==
    LET lines == NonBlankLines(suggestions) IN
    [k \in 1..Len(lines) |-> StripChars(lines[k], "- ")]

SuggestionPieces == {"", "- ", "-", "Add data", "\n", " ", "\t", "* Cut jargon"}

\* What the capability answers over the attempts of the request
SuggestScripts ==
    {<<ApiContent(a \o b \o c \o d)>> :
        a \in SuggestionPieces, b \in SuggestionPieces,
        c \in SuggestionPieces, d \in SuggestionPieces}
    \cup {<<ApiError("Rate limit reached", 429), ApiError("Rate limit reached", 429),
            ApiError("Connection error.", 0)>>}

\* get_enhancement_suggestions up to the request: validation
SuggestCall ==
    /\ single.pc = "idle"
    /\ \E n \in 0..MaxUnits, query_index \in (-1)..MaxUnits :
          LET explanation_array == TargetUnits(n)
              invalid == ValidateTarget(explanation_array, query_index)
          IN single' = [pc |-> IF invalid = "" THEN "requesting" ELSE "raised",
                        explanation_array |-> explanation_array,
                        query_index |-> query_index,
                        response |-> "",
                        suggestions |-> <<>>,
                        requests |-> 0,
                        error |-> invalid]
    /\ UNCHANGED <<call, bulk, chunk, gen, verifier, audio, chat, deck>>

\* The request, the split of its answer into suggestions and the return
SuggestRequest ==
    /\ single.pc = "requesting"
    /\ \E script \in SuggestScripts, jitter \in JitterSamples :
          LET c == RunClient(NewCall(Len(Context(CleanedArray(single.explanation_array)))),
                             script, jitter)
          IN IF c.pc = "raised"
             THEN single' = [single EXCEPT !.pc = "raised", !.error = c.error,
                                           !.requests = @ + 1]
             ELSE single' = [single EXCEPT
                                !.pc = "returned",
                                !.requests = @ + 1,
                                !.response = c.result.val,
                                !.suggestions = ParseSuggestions(c.result.val)]
    /\ UNCHANGED <<call, bulk, chunk, gen, verifier, audio, chat, deck>>

SuggestNext == SuggestCall \/ SuggestRequest

SpecSuggest == SingleInit /\ [][SuggestNext]_vars

\* C25: get_enhancement_suggestions returns one entry per non-blank line of
\* the response, in order; every entry is non-empty, has no surrounding
\* whitespace and no leading bullet marker.
C25_SuggestionsAreTrimmedLines ==
    single.pc = "returned" =>
        /\ Len(single.suggestions) = Len(NonBlankLines(single.response))
        /\ \A k \in 1..Len(single.suggestions) :
              LET entry == single.suggestions[k] IN
              /\ entry # ""
              /\ Strip(entry) = entry
              /\ ~StartsAt(entry, 1, "-")
              /\ Contains(NonBlankLines(single.response)[k], entry)

(***************************************************************************)
(* PPTExplanationService.process_ppt: the titles of the slides             *)
(***************************************************************************)
\* gist.strip().replace('"', '').replace("'", '')
CleanGist(gist) == Replace(Replace(Strip(gist), "\"", ""), "'", "")

\* if len(cleaned_gist.split()) > 8
GistTooLong(cleaned_gist) == Len(Words(cleaned_gist)) > 8

\* Titles the capability may answer with: two, eight and nine words, quoted
TitleTexts ==
    {"Safety first", "\"Q3 'Revenue' review\"",
     "How to wear and check a helmet today",
     "How to wear and check a helmet every day"}

TitleScripts ==
    {<<ApiContent(text)>> : text \in TitleTexts}
    \cup {<<ApiError("Rate limit reached", 429), ApiContent("Late title")>>,
          <<ApiError("Rate limit reached", 429), ApiError("Rate limit reached", 429),
            ApiError("Connection error.", 0)>>}

\* Lines 515-534 for one slide: the prompts sent, in order, and the title
\* kept; the statement after the if block is at the level of the if, so it
\* runs for every slide with whatever gist_prompt then holds
SlideTitle(first, second) ==
    LET first_gist == IF first.pc = "raised" THEN "" ELSE CleanGist(first.result.val)
        second_prompt == IF GistTooLong(first_gist) THEN "concise title" ELSE "title"
    IN  IF first.pc = "raised"
        THEN [raised |-> TRUE, error |-> first.error, prompts |-> <<"title">>,
              first_gist |-> "", content |-> ""]
        ELSE IF second.pc = "raised"
        THEN [raised |-> TRUE, error |-> second.error, prompts |-> <<"title", second_prompt>>,
              first_gist |-> first_gist, content |-> ""]
        ELSE [raised |-> FALSE, error |-> "", prompts |-> <<"title", second_prompt>>,
              first_gist |-> first_gist, content |-> CleanGist(second.result.val)]

DeckInit ==
    /\ deck = Idle
    /\ call = ClientIdle
    /\ bulk = Idle
    /\ chunk = Idle
    /\ gen = Idle
    /\ single = Idle
    /\ verifier = Idle
    /\ audio = Idle
    /\ chat = Idle

\* process_ppt up to the loop: download, extraction, generate_explanations
\* (which raises for a deck without slides and otherwise returns one text
\* per slide)
DeckCall ==
    /\ deck.pc = "idle"
    /\ \E n \in 0..MaxSlides :
          deck' = IF n = 0
                  THEN [pc |-> "raised", error |-> "division by zero",
                        slides_content |-> <<>>]
                  ELSE [pc |-> "running", error |-> "",
                        slides_content |-> SampleDeck(n),
                        explanations |-> [k \in 1..n |-> "Explanation " \o Dec(k)],
                        i |-> 0,
                        titles |-> <<>>,
                        result |-> <<>>]
    /\ UNCHANGED <<call, bulk, chunk, gen, single, verifier, audio, chat>>

\* One iteration of the loop over the slides
DeckTitle ==
    /\ deck.pc = "running"
    /\ deck.i < Len(deck.slides_content)
    /\ \E script1 \in TitleScripts, script2 \in TitleScripts, jitter \in JitterSamples :
          LET prompt_len == Len(deck.slides_content[deck.i + 1])
              first == RunClient(NewCall(prompt_len), script1, jitter)
              second == RunClient(NewCall(prompt_len), script2, jitter)
              title == SlideTitle(first, second)
          IN  IF title.raised
              THEN deck' = [deck EXCEPT !.pc = "raised", !.error = title.error,
                                        !.titles = Append(@, title)]
              ELSE deck' = [deck EXCEPT
                               !.i = @ + 1,
                               !.titles = Append(@, title),
                               !.result = Append(@, [slide |-> deck.i + 1,
                                                     content |-> title.content,
                                                     explanation |-> deck.explanations[deck.i + 1]])]
    /\ UNCHANGED <<call, bulk, chunk, gen, single, verifier, audio, chat>>

\* After the last slide: the downloaded file is removed, the result returned
DeckReturn ==
    /\ deck.pc = "running"
    /\ deck.i = Len(deck.slides_content)
    /\ deck' = [deck EXCEPT !.pc = "returned"]
    /\ UNCHANGED <<call, bulk, chunk, gen, single, verifier, audio, chat>>

DeckNext == DeckCall \/ DeckTitle \/ DeckReturn

SpecDeck == DeckInit /\ [][DeckNext]_vars

\* C26: for each slide the "very concise title" request is issued only when
\* the first title has more than 8 words; when it has 8 words or fewer,
\* exactly one title request is made and its cleaned result is the title.
C26_SecondRequestOnlyWhenLong ==
    deck.pc \in {"running", "returned"} =>
        \A k \in 1..Len(deck.titles) :
            LET title == deck.titles[k] IN
            /\ (\E j \in 1..Len(title.prompts) : title.prompts[j] = "concise title")
                  => GistTooLong(title.first_gist)
            /\ ~GistTooLong(title.first_gist) =>
                  /\ Len(title.prompts) = 1
                  /\ deck.result[k].content = title.first_gist

\* C27: when the first generation succeeded and the regeneration request
\* fails, the unit returns the cleaned first-generation explanation, not the
\* error placeholder, and a finished unit makes no further request. (The
\* verifier catches its own exceptions, so the verification step does not
\* raise into the unit processor.)
C27_RegenerationFailureKeepsFirst ==
    [][\A index \in Indices :
          LET before == gen.worker[index]
              after == gen'.worker[index]
          IN  /\ (before.pc = "regenerate" /\ after.warning # "") =>
                    /\ after.pc = "done"
                    /\ after.failure = ""
                    /\ after.ret = Returned(index, before.cleaned)
                    /\ after.requests = 2
              /\ Finished(before) =>
                    /\ after.requests = before.requests
                    /\ after.ret = before.ret]_vars

C27_Witness ==
    \E index \in Indices :
        LET w == gen.worker[index] IN
        /\ Finished(w)
        /\ w.warning # ""
        /\ w.requests = 2
        /\ w.verdicts = <<FALSE>>
        /\ w.ret = Returned(index, w.cleaned)
        /\ w.cleaned # ""

(***************************************************************************)
(* ChatbotService.handle_query                                             *)
(***************************************************************************)
\* \d+[\+\-\*\/]\d+ matched from position i
MathAt(s, i) ==
    \E k \in i..Len(s) :
        /\ \A h \in i..k : IsDigit(Char(s, h))
        /\ k + 2 <= Len(s)
        /\ Char(s, k + 1) \in {"+", "-", "*", "/"}
        /\ IsDigit(Char(s, k + 2))

\* what.*<word>: "what", then any characters but a newline, then the word
WhatThen(s, word) ==
    \E i \in 1..Len(s), j \in 1..Len(s) :
        /\ StartsAt(s, i, "what")
        /\ j >= i + 4
        /\ StartsAt(s, j, word)
        /\ \A h \in (i + 4)..(j - 1) : Char(s, h) # "\n"

IsClearlyUnrelatedQuestion_Never(question) == FALSE

\* _is_clearly_unrelated_question: re.search of each pattern in the
\* lower-cased, stripped question
IsClearlyUnrelatedQuestion(question) ==
    LET q == Strip(Lower(question)) IN
    \/ MathAt(q, 1)
    \/ \E i \in 1..Len(q) : StartsAt(q, i, "what is ") /\ MathAt(q, i + 8)
    \/ \E verb \in {"cheat", "steal", "lie"} : Contains(q, "can i " \o verb)
    \/ \E verb \in {"cheat", "steal"} : Contains(q, "how to " \o verb)
    \/ \E verb \in {"cheat", "steal", "lie"} : Contains(q, "should i " \o verb)
    \/ WhatThen(q, "weather")
    \/ WhatThen(q, "time")
    \/ Contains(q, "how old are you")
    \/ WhatThen(q, "your name")

OutOfScopeResponse ==
    "I'm here to help with questions about the presentation content. Could you please ask something related to the topics covered in the presentation?"

\* format_conversation_history
FormatConversationHistory(chat_history) ==
    LET earlier == SubSeq(chat_history, 1, Len(chat_history) - 1)
        entry(i) == (IF i = 1 THEN <<"=== Conversation Start ===">> ELSE <<>>)
                    \o <<(IF earlier[i].role = "user" THEN "User" ELSE "Assistant")
                         \o ": " \o earlier[i].content>>
                    \o (IF i - 1 < Len(chat_history) - 2 THEN <<"---">> ELSE <<>>)
        lines[i \in 0..Len(earlier)] == IF i = 0 THEN <<>> ELSE lines[i - 1] \o entry(i)
    IN  Join("\n", lines[Len(earlier)])

\* format_poc_details
FormatPocDetails(pocs) ==
    IF Len(pocs) = 0 THEN "No contacts available."
    ELSE "Points of Contact:\n"
         \o Join("\n", [k \in 1..Len(pocs) |->
                           pocs[k].role \o ": " \o pocs[k].name
                           \o " (Contact: " \o pocs[k].contact \o ")"])

\* The number of characters of the fixed text of generate_prompt
PromptFixedLen == 3032

\* len(generate_prompt(...)) for a knowledge base of knowledge_len characters
PromptLen(chat_history, knowledge_len, pocs) ==
    PromptFixedLen + knowledge_len + Len(FormatConversationHistory(chat_history))
    + Len(chat_history[Len(chat_history)].content) + Len(FormatPocDetails(pocs))

\* max_response_tokens = min(4096 - prompt_tokens, 150)
ChatMaxTokens(prompt_len) ==
    IF 4096 - EstimateTokens(prompt_len) < 150 THEN 4096 - EstimateTokens(prompt_len) ELSE 150

MaxHistory == 2

EarlierMessages ==
    {[role |-> "user", content |-> "Hi"],
     [role |-> "assistant", content |-> "Hello! Ask me about the deck."]}

Questions ==
    {"2+2", "What is 12*3?", " Can I cheat on the audit", "how to steal", "should i lie",
     "What's the weather", "what\nweather", "What is the timeline?", "How old are you",
     "what is your name", "Who do I contact?", "Explain slide 2", "2 + 2", "a 2+2"}

\* Characters of the presentation content the storage service extracts
KnowledgeLens == {0, 400, 13000, 16000}

SamplePocs == {<<>>, <<[role |-> "HR", name |-> "Ana", contact |-> "ana@example.com"]>>}

ChatInit ==
    /\ chat = Idle
    /\ call = ClientIdle
    /\ bulk = Idle
    /\ chunk = Idle
    /\ gen = Idle
    /\ single = Idle
    /\ verifier = Idle
    /\ audio = Idle
    /\ deck = Idle

\* The return of handle_query: the history with the assistant's message added
Answered(c, response) ==
    [c EXCEPT !.pc = "returned",
              !.response = response,
              !.updated_chat_history =
                  c.chatHistory \o <<[role |-> "assistant", content |-> response]>>]

\* The except clause of handle_query
ChatFailed(c, message) ==
    [c EXCEPT !.pc = "raised", !.error = "Failed to process query: " \o message]

\* handle_query up to the retrieval of the presentation: the check of the
\* history and the quick check of the last message
ChatCall ==
    /\ chat.pc = "idle"
    /\ \E n \in 0..MaxHistory, pocs \in SamplePocs, last \in 0..1 :
       \E earlier \in [1..n -> EarlierMessages], question \in Questions :
          LET chatHistory == IF last = 0 THEN earlier
                             ELSE earlier \o <<[role |-> "user", content |-> question]>>
              c == [pc |-> "retrieving", chatHistory |-> chatHistory, pocs |-> pocs,
                    retrieved |-> FALSE, knowledge_len |-> 0, requests |-> <<>>,
                    response |-> "", updated_chat_history |-> <<>>, error |-> ""]
          IN  chat' = IF Len(chatHistory) = 0
                      THEN ChatFailed(c, "Chat history cannot be empty")
                      ELSE IF IsClearlyUnrelatedQuestion(chatHistory[Len(chatHistory)].content)
                      THEN Answered(c, OutOfScopeResponse)
                      ELSE c
    /\ UNCHANGED <<call, bulk, chunk, gen, single, verifier, audio, deck>>

\* generate_prompt: the storage service extracts the presentation content,
\* or raises
ChatRetrieve ==
    /\ chat.pc = "retrieving"
    /\ \/ \E knowledge_len \in KnowledgeLens :
             chat' = [chat EXCEPT !.pc = "requesting", !.retrieved = TRUE,
                                  !.knowledge_len = knowledge_len]
       \/ chat' = [ChatFailed(chat, "Failed to download presentation")
                      EXCEPT !.retrieved = TRUE]
    /\ UNCHANGED <<call, bulk, chunk, gen, single, verifier, audio, deck>>

\* ChatbotService._make_openai_request: one attempt, no retry
ChatRequest ==
    /\ chat.pc = "requesting"
    /\ \E outcome \in {ApiContent(" Slide 2 covers helmets. "), ApiContent(""),
                       ApiNoContent, ApiError("Rate limit reached", 429)} :
          LET asked == [chat EXCEPT !.requests = Append(@,
                           [max_tokens |-> ChatMaxTokens(
                               PromptLen(chat.chatHistory, chat.knowledge_len, chat.pocs))])]
          IN  chat' = CASE outcome.kind = "content" -> Answered(asked, Strip(outcome.content))
                        [] outcome.kind = "no_content" ->
                               ChatFailed(asked, "'NoneType' object has no attribute 'strip'")
                        [] OTHER -> ChatFailed(asked, outcome.msg)
    /\ UNCHANGED <<call, bulk, chunk, gen, single, verifier, audio, deck>>

ChatNext == ChatCall \/ ChatRetrieve \/ ChatRequest

SpecChat == ChatInit /\ [][ChatNext]_vars

\* Questions of the sample that match one of the unrelated patterns
MatchingQuestions ==
    {"2+2", "What is 12*3?", " Can I cheat on the audit", "how to steal", "should i lie",
     "What's the weather", "What is the timeline?", "How old are you", "what is your name"}

\* C28: a last message matching a clearly-unrelated pattern is answered with
\* the fixed out-of-scope response, without retrieving the presentation and
\* without a completion request; every returned chat history is the input
\* history, unchanged and in order, followed by exactly one assistant message
\* carrying the response.
C28_UnrelatedShortCircuits ==
    chat.pc # "idle" =>
        /\ (Len(chat.chatHistory) > 0
            /\ chat.chatHistory[Len(chat.chatHistory)].content \in MatchingQuestions) =>
               /\ chat.pc = "returned"
               /\ chat.response = OutOfScopeResponse
               /\ ~chat.retrieved
               /\ chat.requests = <<>>
        /\ chat.pc = "returned" =>
               /\ Len(chat.updated_chat_history) = Len(chat.chatHistory) + 1
               /\ SubSeq(chat.updated_chat_history, 1, Len(chat.chatHistory)) = chat.chatHistory
               /\ chat.updated_chat_history[Len(chat.chatHistory) + 1]
                     = [role |-> "assistant", content |-> chat.response]

C28_Witness ==
    /\ chat.pc = "returned"
    /\ Len(chat.chatHistory) = 3
    /\ chat.chatHistory[3].content = " Can I cheat on the audit"
    /\ chat.response = OutOfScopeResponse
    /\ ~chat.retrieved
    /\ chat.requests = <<>>
    /\ Len(chat.updated_chat_history) = 4

\* C29: every completion request of the chatbot carries a response-token
\* ceiling between 1 and 150, whatever the length of the prompt.
C29_CeilingWithinRange ==
    chat.pc # "idle" =>
        \A k \in 1..Len(chat.requests) :
            /\ chat.requests[k].max_tokens >= 1
            /\ chat.requests[k].max_tokens <= 150

(***************************************************************************)
(* BulkEnhancementService.rollback_enhancements                            *)
(***************************************************************************)
RolledBackEntry_KeepsEnhanced(enhanced, backup, now) ==
    [key \in DOMAIN enhanced \cup {"explanation", "last_rollback"} |->
        IF key = "last_rollback" THEN now ELSE enhanced[key]]

\* {**rolled_back[i], 'explanation': backup['explanation'], 'last_rollback': now}
RolledBackEntry(enhanced, backup, now) ==
    [key \in DOMAIN enhanced \cup {"explanation", "last_rollback"} |->
        IF key = "explanation" THEN backup.explanation
        ELSE IF key = "last_rollback" THEN now
        ELSE enhanced[key]]

\* datetime.now().isoformat()
SampleNow == "2025-01-01T09:30:00"

\* rollback_enhancements(enhanced_array, backup_array), the whole call. The
\* result is built in a copy of enhanced_array whose entries are replaced,
\* so both arguments hold afterwards what they held before.
RollbackEnhancements(enhanced_array, backup_array) ==
    LET invalid == IF ValidateInput(enhanced_array, 1) # "" THEN ValidateInput(enhanced_array, 1)
                   ELSE IF ValidateInput(backup_array, 1) # "" THEN ValidateInput(backup_array, 1)
                   ELSE IF Len(enhanced_array) # Len(backup_array)
                        THEN "Arrays must have the same length"
                   ELSE ""
    IN  [pc |-> IF invalid = "" THEN "rolled_back" ELSE "rollback_raised",
         error |-> invalid,
         enhanced_array |-> enhanced_array,
         backup_array |-> backup_array,
         enhanced_after |-> enhanced_array,
         backup_after |-> backup_array,
         rolled_back |-> IF invalid # "" THEN <<>>
                         ELSE [i \in 1..Len(enhanced_array) |->
                                  RolledBackEntry(enhanced_array[i], backup_array[i], SampleNow)]]

\* A collection as a caller may hold it: n units, enhanced or original
EnhancedUnits(n) ==
    [i \in 1..n |-> [slide |-> i, content |-> "Topic " \o Dec(i),
                     explanation |-> "Enhanced " \o Dec(i)]]

\* rollback_enhancements on two collections of the caller
RollbackCall ==
    /\ bulk.pc = "idle"
    /\ \E n \in 0..MaxUnits, m \in 0..MaxUnits,
          missing \in {"", "slide", "content", "explanation"}, which \in {"enhanced", "backup"} :
          bulk' = RollbackEnhancements(
                     IF which = "enhanced" THEN WithoutKey(EnhancedUnits(n), missing)
                     ELSE EnhancedUnits(n),
                     IF which = "backup" THEN WithoutKey(SampleUnits(m), missing)
                     ELSE SampleUnits(m))
    /\ UNCHANGED <<call, chunk, gen, single, verifier, audio, chat, deck>>

\* rollback_enhancements on the output of enhance_all_slides and its input
RollbackOutput ==
    /\ bulk.pc = "returned"
    /\ bulk' = RollbackEnhancements(bulk.updated_array, bulk.explanation_array)
    /\ UNCHANGED <<call, chunk, gen, single, verifier, audio, chat, deck>>

RollbackNext == BulkCall \/ BulkChunk \/ RollbackCall \/ RollbackOutput

SpecRollback == BulkInit /\ [][RollbackNext]_vars

\* Non-empty and every unit has its three keys
ValidCollection(units) ==
    /\ Len(units) > 0
    /\ \A k \in 1..Len(units) : {"slide", "content", "explanation"} \subseteq DOMAIN units[k]

\* C30: for two valid collections of equal length rollback_enhancements
\* returns as many entries, entry i with backup[i]'s explanation and
\* enhanced[i]'s slide and content (so the output of enhance_all_slides
\* rolled back against its input has every original explanation); valid
\* collections of different length are rejected; neither argument changes.
C30_RollbackRestores ==
    bulk.pc \in {"rolled_back", "rollback_raised"} =>
        /\ bulk.enhanced_after = bulk.enhanced_array
        /\ bulk.backup_after = bulk.backup_array
        /\ (ValidCollection(bulk.enhanced_array) /\ ValidCollection(bulk.backup_array)) =>
              IF Len(bulk.enhanced_array) = Len(bulk.backup_array)
              THEN /\ bulk.pc = "rolled_back"
                   /\ Len(bulk.rolled_back) = Len(bulk.enhanced_array)
                   /\ \A i \in 1..Len(bulk.rolled_back) :
                         /\ bulk.rolled_back[i].explanation = bulk.backup_array[i].explanation
                         /\ bulk.rolled_back[i].slide = bulk.enhanced_array[i].slide
                         /\ bulk.rolled_back[i].content = bulk.enhanced_array[i].content
              ELSE /\ bulk.pc = "rollback_raised"
                   /\ bulk.error = "Arrays must have the same length"

\* The output of enhance_all_slides on three units, all rewritten, rolled
\* back against its input
C30_Witness ==
    /\ bulk.pc = "rolled_back"
    /\ Len(bulk.rolled_back) = 3
    /\ \A i \in 1..3 :
          /\ bulk.enhanced_array[i].explanation # bulk.backup_array[i].explanation
          /\ bulk.rolled_back[i].explanation = "Original " \o Dec(i)
          /\ bulk.rolled_back[i].content = "Topic " \o Dec(i)
    /\ bulk.enhanced_array[1].explanation = "I."

====
